---- MODULE Spec2Model ----
(***************************************************************************)
(* A model of the reactivity core of solarfluxx/atlas (src/src/Main.ts,    *)
(* second version in the file, lines 301-825; the earlier revision of the  *)
(* same design is src/unnamed/part_001).                                   *)
(*                                                                         *)
(* The heap is a sequence of source objects (objs).  An atom state is one  *)
(* element of atoms; its wrapper (the Proxy) is identified with the index  *)
(* of the state, so that "the same wrapper" means "the same index".        *)
(* Closures are values [kind, id, n]: the update closure of the id-th      *)
(* observe(callback) call, the primary / secondary closures of the id-th   *)
(* link, the re-render closure of the n-th effect of host unit id.         *)
(* User code (observer callbacks, render bodies, focus probes) is a small  *)
(* program of wrapper reads, unobserve(...) blocks and a conditional.      *)
(***************************************************************************)
EXTENDS Integers, Sequences, FiniteSets, TLC

VARIABLES
    objs,       \* the heap: source objects, [fields, unatom]
    memoized,   \* Global.memoized: source object -> atom state (0: none)
    atoms,      \* the Atom states: [target, observers, references]
    links,      \* closure environments of Atom.link: [self, key, peer, pkey]
    contexts,   \* Global.contexts: the scan stack, frames [id, states]
    regs,       \* observe(callback) calls: closure environment of each
    units,      \* host render units using observe() / useEffect
    fanout,     \* observer invocations made by the last operation, in order
    ran,        \* user callbacks run by the last operation, in order
    last,       \* the last operation and its result
    issued,     \* the pairs <<source, result>> of the atom(source) calls made
    events,     \* whenAtom registrations and callback invocations, in order
    handles,    \* closures returned by Atom.watch to the program
    overflow    \* the call stack overflowed (unbounded recursion)

vars == <<objs, memoized, atoms, links, contexts, regs, units, fanout, ran, last,
          issued, events, handles, overflow>>

----------------------------------------------------------------------------
(* Bounds of the model *)

MaxVal == 1
MaxObjs == 4
MaxRegs == 2
MaxDepth == 8
MaxWatches == 2
MaxCallbacks == 3
MaxFrames == 2
MaxLinks == 3

----------------------------------------------------------------------------
(* Values *)

\* The keys of the program: the fields of its records, the indices and the
\* length of its arrays, the array method read by its observers, and the
\* members of the built-in containers that its code uses.
Keys == {"0", "1", "length", "a", "b", "c", "value", "map",
         "size", "has", "get", "add", "set", "delete", "clear"}
\* The order in which the own keys of an object are enumerated: the
\* indices in ascending order, then the string keys as they were created.
KeyOrder == <<"0", "1", "length", "a", "b", "c", "value", "add">>

Prim(n) == [t |-> "prim", v |-> n]
Wrap(i) == [t |-> "atom", v |-> i]
Raw(o) == [t |-> "obj", v |-> o]
Undef == [t |-> "undef", v |-> 0]
\* A function, and a boolean as the number it converts to.
Fn == [t |-> "fn", v |-> 0]
Bool(b) == Prim(IF b THEN 1 ELSE 0)

Prims == {Prim(n) : n \in 0..MaxVal}

NoFields == [k \in Keys |-> Undef]
NoObservers == [k \in Keys |-> <<>>]
NoReferences == [k \in Keys |-> 0]

----------------------------------------------------------------------------
(* Sequences used as insertion-ordered sets (JS Set / Map / Array) *)

SeqHas(s, x) == \E i \in 1..Len(s) : s[i] = x
AddLast(s, x) == IF SeqHas(s, x) THEN s ELSE Append(s, x)
Without(s, x) == SelectSeq(s, LAMBDA y : y # x)
Range(s) == {s[i] : i \in 1..Len(s)}

----------------------------------------------------------------------------
(* The whole program state as one record, threaded through the handlers *)

Cur ==
    [objs |-> objs, memoized |-> memoized, atoms |-> atoms, links |-> links,
     contexts |-> contexts, regs |-> regs, units |-> units,
     fanout |-> <<>>, ran |-> <<>>, events |-> events, handles |-> handles,
     overflow |-> overflow]

Install(s) ==
    /\ objs' = s.objs
    /\ memoized' = s.memoized
    /\ atoms' = s.atoms
    /\ links' = s.links
    /\ contexts' = s.contexts
    /\ regs' = s.regs
    /\ units' = s.units
    /\ fanout' = s.fanout
    /\ ran' = s.ran
    /\ events' = s.events
    /\ handles' = s.handles
    /\ overflow' = s.overflow

----------------------------------------------------------------------------
(* Helpers of Main.ts *)

\* isArticle: an object that is not an atom wrapper (a wrapper answers the
\* atomSymbol read with its state).
isArticle(value) == value.t = "obj"

\* isAtom: the value carries atom state.
isAtom(value) == value.t = "atom"

NewObject(fields) ==
    [fields |-> fields, unatom |-> FALSE, kind |-> "record", awaiting |-> <<>>,
     members |-> {}]

\* An array literal of one or two elements: index fields and length.
NewArray(elems) ==
    [fields |-> [k \in Keys |->
                    CASE k = "0" /\ Len(elems) >= 1 -> elems[1]
                      [] k = "1" /\ Len(elems) >= 2 -> elems[2]
                      [] k = "length" -> Prim(Len(elems))
                      [] OTHER -> Undef],
     unatom |-> FALSE, kind |-> "array", awaiting |-> <<>>, members |-> {}]

\* The keys "for (const key in source)" enumerates: the length of an array
\* is an own key that is not enumerable.
Enumerable(st, src, key) ==
    /\ st.objs[src].fields[key] # Undef
    /\ ~(st.objs[src].kind = "array" /\ key = "length")

\* An object literal evaluated by the program: a fresh source object.
Alloc(st, fields) ==
    [st EXCEPT !.objs = Append(@, NewObject(fields)), !.memoized = Append(@, 0)]

\* new Atom(target, wrapper, manual): empty observers and references.
NewAtom(target) ==
    [target |-> target, observers |-> NoObservers, references |-> NoReferences]

TargetOf(st, a) == st.atoms[a].target

----------------------------------------------------------------------------
(* atom and atomize *)

RECURSIVE atom(_, _, _)
RECURSIVE atomize(_, _, _)
RECURSIVE atomizeFields(_, _, _, _)

\* atomize(value): articles are wrapped, wrappers and primitives pass.
atomize(st, value, fuel) ==
    IF isArticle(value) THEN atom(st, value, fuel) ELSE [st |-> st, ret |-> value]

\* A loop that leaves a field as it is when the object it holds has been
\* memoized already: a reference back to an ancestor stays raw.
atomizeFields_NoBack(st, src, i, fuel) ==
    IF i > Len(KeyOrder) THEN st
    ELSE LET key == KeyOrder[i]
             cur == st.objs[src].fields[key]
         IN  IF ~Enumerable(st, src, key) \/ (isArticle(cur) /\ st.memoized[cur.v] # 0)
             THEN atomizeFields(st, src, i + 1, fuel)
             ELSE LET r == atomize(st, cur, fuel)
                      s1 == [r.st EXCEPT !.objs[src].fields[key] = r.ret]
                  IN  atomizeFields(s1, src, i + 1, fuel)

\* The loop "for (const key in source) source[key] = atomize(source[key])".
atomizeFields(st, src, i, fuel) ==
    IF i > Len(KeyOrder) THEN st
    ELSE LET key == KeyOrder[i]
             cur == st.objs[src].fields[key]
         IN  IF ~Enumerable(st, src, key) THEN atomizeFields(st, src, i + 1, fuel)
             ELSE LET r == atomize(st, cur, fuel)
                      s1 == [r.st EXCEPT !.objs[src].fields[key] = r.ret]
                  IN  atomizeFields(s1, src, i + 1, fuel)

\* The fields of a source that still hold an object to be atomized.
RawFields(st, src) ==
    {k \in Keys : LET v == st.objs[src].fields[k]
                  IN  isArticle(v) /\ ~st.objs[v.v].unatom}

RECURSIVE callAwaiting(_, _, _, _)
\* for (const callback of callbacks) callback.call(wrapper, wrapper)
callAwaiting(st, callbacks, src, idx) ==
    IF callbacks = <<>> THEN st
    ELSE callAwaiting([st EXCEPT !.events = Append(@,
                            [ev |-> "call", cb |-> Head(callbacks), target |-> src,
                             wrapper |-> Wrap(idx), raw |-> RawFields(st, src)])],
                      Tail(callbacks), src, idx)

\* A resolution that leaves out the callback registered first.
resolveAwaiting_SkipFirst(st, src, idx) ==
    IF st.objs[src].awaiting = <<>> THEN st
    ELSE callAwaiting([st EXCEPT !.objs[src].awaiting = <<>>],
                      Tail(st.objs[src].awaiting), src, idx)

\* "Resolve awaiting callbacks": the list under awaitSymbol is taken off
\* the source and each callback is called with the wrapper.
resolveAwaiting(st, src, idx) ==
    IF st.objs[src].awaiting = <<>> THEN st
    ELSE callAwaiting([st EXCEPT !.objs[src].awaiting = <<>>],
                      st.objs[src].awaiting, src, idx)

\* A memo lookup that does not find the state made last.
memoGet_Miss(st, src) ==
    IF st.memoized[src] = Len(st.atoms) THEN 0 ELSE st.memoized[src]

\* The memo lookup "Global.memoized.get(source)": 0 when there is none.
memoGet(st, src) == st.memoized[src]

\* atom(source): coerce a non-article to { value: source }, return a source
\* marked by unatom as it is, return the memoized wrapper, or else create the
\* state, memoize it, atomize the fields and then call the callbacks that
\* whenAtom left on the source.
atom(st, source, fuel) ==
    IF fuel = 0 THEN [st |-> [st EXCEPT !.overflow = TRUE], ret |-> Undef]
    ELSE
    LET coerce == ~isArticle(source)
        s0 == IF coerce THEN Alloc(st, [NoFields EXCEPT !["value"] = source]) ELSE st
        src == IF coerce THEN Len(s0.objs) ELSE source.v
    IN  IF s0.objs[src].unatom THEN [st |-> s0, ret |-> Raw(src)]
        ELSE IF memoGet(s0, src) # 0 THEN [st |-> s0, ret |-> Wrap(memoGet(s0, src))]
        ELSE LET s1 == [s0 EXCEPT !.atoms = Append(@, NewAtom(src))]
                 idx == Len(s1.atoms)
                 s2 == [s1 EXCEPT !.memoized[src] = idx]
                 s3 == atomizeFields(s2, src, 1, fuel - 1)
             IN  [st |-> resolveAwaiting(s3, src, idx), ret |-> Wrap(idx)]

\* whenAtom(target, callback): the callback goes to the end of the list
\* kept on the target under awaitSymbol; the list is created when absent.
whenAtom(st, target, cb) ==
    [st EXCEPT !.objs[target].awaiting = Append(@, cb),
               !.events = Append(@, [ev |-> "when", cb |-> cb, target |-> target,
                                     wrapper |-> IF memoGet(st, target) # 0
                                                 THEN Wrap(memoGet(st, target)) ELSE Undef,
                                     raw |-> {}])]

----------------------------------------------------------------------------
(* The scan stack *)

FrameIds(st) == {st.contexts[i].id : i \in 1..Len(st.contexts)}
HeldIds(st) == {st.units[u].scan : u \in 1..Len(st.units)}

\* The identity of a freshly created scan object.
NewFrameId(st) ==
    CHOOSE n \in 1..(Len(st.contexts) + Len(st.units) + 1) :
        /\ n \notin FrameIds(st) \cup HeldIds(st)
        /\ \A m \in 1..(n - 1) : m \in FrameIds(st) \cup HeldIds(st)

\* Global.contexts.push(scan)
pushFrame(st, id) ==
    [st EXCEPT !.contexts = Append(@, [id |-> id, states |-> <<>>])]

\* A removal that takes the frame on top of the stack, whichever it is.
removeFrame_Pop(st, id) ==
    [st EXCEPT !.contexts = SubSeq(@, 1, Len(@) - 1)]

\* index = Global.contexts.indexOf(scan); if (index >= 0) splice(index, 1)
removeFrame(st, id) ==
    [st EXCEPT !.contexts = SelectSeq(@, LAMBDA f : f.id # id)]

\* scan.states of the frame, as the pairs <<atom, key>> in insertion order.
FrameStates(st, id) ==
    LET i == CHOOSE i \in 1..Len(st.contexts) : st.contexts[i].id = id
    IN  st.contexts[i].states

\* A subscribe that records the key in every frame of the stack.
subscribe_EveryFrame(st, a, key) ==
    [st EXCEPT !.contexts = [i \in 1..Len(@) |->
                                [@[i] EXCEPT !.states = AddLast(@, <<a, key>>)]]]

\* Atom.subscribe: the key goes into the topmost frame, when there is one.
subscribe(st, a, key) ==
    IF Len(st.contexts) = 0 THEN st
    ELSE [st EXCEPT !.contexts[Len(st.contexts)].states = AddLast(@, <<a, key>>)]

\* Atom.get for a field that holds no function.
get(st, a, key) == st.objs[TargetOf(st, a)].fields[key]

\* The get trap of the wrapper: subscribe, then return the value.
getTrap(st, a, key) == [st |-> subscribe(st, a, key), ret |-> get(st, a, key)]

----------------------------------------------------------------------------
(* Observers: watch, notify, link *)

Obs(kind, id, n) == [kind |-> kind, id |-> id, n |-> n]

\* A watch that registers the observer on every key of the atom.
watch_EveryKey(st, a, keys, observer) ==
    [st EXCEPT !.atoms[a].observers = [k \in Keys |-> AddLast(@[k], observer)]]

RECURSIVE watch(_, _, _, _)
\* Atom.watch(keys, observer): add the observer to the set of each key.
watch(st, a, keys, observer) ==
    IF keys = <<>> THEN st
    ELSE watch([st EXCEPT !.atoms[a].observers[Head(keys)] = AddLast(@, observer)],
               a, Tail(keys), observer)

RECURSIVE unwatch(_, _, _, _)
\* The closure returned by Atom.watch: delete the observer from each key.
unwatch(st, a, keys, observer) ==
    IF keys = <<>> THEN st
    ELSE unwatch([st EXCEPT !.atoms[a].observers[Head(keys)] = Without(@, observer)],
                 a, Tail(keys), observer)

\* update of observe(callback): arm the timer unless it is armed already.
update(st, r) ==
    IF st.regs[r].timeout THEN st ELSE [st EXCEPT !.regs[r].timeout = TRUE]

RECURSIVE notify(_, _, _, _, _)
RECURSIVE notifyKey(_, _, _, _, _, _)
RECURSIVE call(_, _, _, _, _)

\* A primary that names no exception when it notifies the peer.
primary_NoException(st, l, fuel) ==
    LET L == st.links[l]
        v == st.objs[TargetOf(st, L.self)].fields[L.key]
        s1 == [st EXCEPT !.objs[TargetOf(st, L.peer)].fields[L.pkey] = v]
    IN  notify(s1, L.peer, <<L.pkey>>, {}, fuel)

\* primary of Atom.link: copy this side to the peer, notify the peer's
\* observers except secondary.
primary(st, l, fuel) ==
    LET L == st.links[l]
        v == st.objs[TargetOf(st, L.self)].fields[L.key]
        s1 == [st EXCEPT !.objs[TargetOf(st, L.peer)].fields[L.pkey] = v]
    IN  notify(s1, L.peer, <<L.pkey>>, {Obs("secondary", l, 0)}, fuel)

\* A secondary that notifies this side without copying the value.
secondary_NoCopy(st, l, fuel) ==
    LET L == st.links[l]
    IN  notify(st, L.self, <<L.key>>, {Obs("primary", l, 0)}, fuel)

\* secondary of Atom.link: copy the peer to this side, notify this side's
\* observers except primary.
secondary(st, l, fuel) ==
    LET L == st.links[l]
        v == st.objs[TargetOf(st, L.peer)].fields[L.pkey]
        s1 == [st EXCEPT !.objs[TargetOf(st, L.self)].fields[L.key] = v]
    IN  notify(s1, L.self, <<L.key>>, {Obs("primary", l, 0)}, fuel)

\* One observer called by notify, by the kind of closure it is.
call(st, observer, a, key, fuel) ==
    IF fuel = 0 THEN [st EXCEPT !.overflow = TRUE]
    ELSE
    LET s0 == [st EXCEPT !.fanout = Append(@, [obs |-> observer, atom |-> a, key |-> key])]
    IN  CASE observer.kind = "update" -> update(s0, observer.id)
          [] observer.kind = "primary" -> primary(s0, observer.id, fuel - 1)
          [] observer.kind = "secondary" -> secondary(s0, observer.id, fuel - 1)
          [] observer.kind = "render" -> [s0 EXCEPT !.units[observer.id].pending = TRUE]
          [] observer.kind = "reader" -> getTrap(s0, observer.id, "b").st
          [] observer.kind = "leaver" -> unwatch(s0, a, <<key>>, observer)
          [] observer.kind = "adder" ->
                 watch(s0, a, <<key>>, Obs("watcher", observer.id, 0))
          [] OTHER -> s0

\* A loop that steps through the observers by position: the observer that
\* follows one that removed itself is skipped.
notifyKey_ByPosition(st, a, key, exceptions, i, fuel) ==
    LET observers == st.atoms[a].observers[key]
    IN  IF i > Len(observers) \/ st.overflow THEN st
        ELSE LET s1 == IF observers[i] \in exceptions THEN st
                       ELSE call(st, observers[i], a, key, fuel)
             IN  notifyKey(s1, a, key, exceptions, i + 1, fuel)

\* The inner loop of Atom.notify over the live Set of one key: i is the
\* position of the iterator.  Entries deleted while the loop runs are not
\* visited, entries added are.
notifyKey(st, a, key, exceptions, i, fuel) ==
    LET observers == st.atoms[a].observers[key]
    IN  IF i > Len(observers) \/ st.overflow THEN st
        ELSE LET observer == observers[i]
                 s1 == IF observer \in exceptions THEN st
                       ELSE call(st, observer, a, key, fuel)
                 after == s1.atoms[a].observers[key]
                 visited == {observers[j] : j \in 1..i}
                 next == 1 + Cardinality({j \in 1..Len(after) : after[j] \in visited})
             IN  notifyKey(s1, a, key, exceptions, next, fuel)

\* Atom.notify(keys, ...exceptions)
notify(st, a, keys, exceptions, fuel) ==
    IF keys = <<>> THEN st
    ELSE notify(notifyKey(st, a, Head(keys), exceptions, 1, fuel),
                a, Tail(keys), exceptions, fuel)

\* The index keys of an array, in order.
IndexKeys == <<"0", "1">>
IndexOf(key) == CHOOSE i \in 0..(Len(IndexKeys) - 1) : IndexKeys[i + 1] = key

\* Reflect.set(target, key, value, proxy): the value is stored under the
\* key of the target.  On an array the host keeps length in step: storing
\* at an index not below length raises length, without a call of the set
\* trap; storing a smaller length removes the elements from it on.
reflectSet(st, src, key, value) ==
    LET o == st.objs[src]
    IN  IF o.kind = "array" /\ key = "length" /\ value.t = "prim"
        THEN [st EXCEPT !.objs[src].fields =
                  [k \in Keys |-> IF k = "length" THEN value
                                  ELSE IF SeqHas(IndexKeys, k) /\ IndexOf(k) >= value.v THEN Undef
                                  ELSE @[k]]]
        ELSE IF o.kind = "array" /\ SeqHas(IndexKeys, key) /\ IndexOf(key) >= o.fields["length"].v
        THEN [st EXCEPT !.objs[src].fields[key] = value,
                        !.objs[src].fields["length"] = Prim(IndexOf(key) + 1)]
        ELSE [st EXCEPT !.objs[src].fields[key] = value]

\* A set trap that stores the incoming value as it is.
setTrap_Raw(st, a, key, incoming, fuel) ==
    notify(reflectSet(st, TargetOf(st, a), key, incoming), a, <<key>>, {}, fuel)

\* The set trap of the wrapper: store atomize(incoming), notify the key.
setTrap(st, a, key, incoming, fuel) ==
    LET r == atomize(st, incoming, fuel)
        s1 == reflectSet(r.st, TargetOf(r.st, a), key, r.ret)
    IN  notify(s1, a, <<key>>, {}, fuel)

\* wrapper.push(x): the method proxy atomizes the argument and applies
\* Array.prototype.push to the wrapper, which reads length, sets the
\* element at that index and sets length, each through the traps.
push(st, a, x, fuel) ==
    LET r == atomize(st, x, fuel)
        g == getTrap(r.st, a, "length")
        n == g.ret.v
        s1 == setTrap(g.st, a, IndexKeys[n + 1], r.ret, fuel)
    IN  setTrap(s1, a, "length", Prim(n + 1), fuel)

\* wrapper.pop(): Array.prototype.pop applied to the wrapper reads length
\* and the last element through the get trap, deletes the element (no
\* trap is defined for a delete) and sets length through the set trap.
pop(st, a, fuel) ==
    LET g == getTrap(st, a, "length")
        n == g.ret.v
    IN  IF n = 0 THEN setTrap(g.st, a, "length", Prim(0), fuel)
        ELSE LET g2 == getTrap(g.st, a, IndexKeys[n])
                 s1 == [g2.st EXCEPT !.objs[TargetOf(g2.st, a)].fields[IndexKeys[n]] = Undef]
             IN  setTrap(s1, a, "length", Prim(n - 1), fuel)

----------------------------------------------------------------------------
(* Methods called through a wrapper *)

\* new Set(), new Map(), new WeakSet(), new WeakMap(): no own keys; the
\* members are values, or pairs <<key, value>> for the maps.
Containers == {"Set", "Map", "WeakSet", "WeakMap"}
NewContainer(kind) == [NewObject(NoFields) EXCEPT !.kind = kind]

\* Global.manuals.get(source.constructor)[key]: the keys notified after a
\* call of the method, <<>> when the table has no entry.  Of the keys
\* listed for Set and Map, size, has and get are modelled.
manuals(kind, key) ==
    CASE kind = "WeakSet" /\ key \in {"add", "delete"} -> <<"has">>
      [] kind = "WeakMap" /\ key \in {"add", "delete"} -> <<"has", "get">>
      [] kind = "Set" /\ key \in {"add", "delete", "clear"} -> <<"size", "has">>
      [] kind = "Map" /\ key \in {"set", "delete", "clear"} -> <<"size", "has", "get">>
      [] OTHER -> <<>>

\* The methods of the prototypes of the containers.
methods(kind) ==
    CASE kind = "Set" -> {"add", "delete", "clear", "has"}
      [] kind = "Map" -> {"set", "delete", "clear", "has", "get"}
      [] kind = "WeakSet" -> {"add", "delete", "has"}
      [] kind = "WeakMap" -> {"set", "delete", "has", "get"}
      [] OTHER -> {}

\* typeof Reflect.get(target, key, self) === 'function'
isMethod(st, src, key) ==
    key \in methods(st.objs[src].kind) \/ st.objs[src].fields[key] = Fn

RECURSIVE atomizeParams(_, _, _)
\* parameters.map(parameter => atomize(parameter))
atomizeParams(st, params, fuel) ==
    IF params = <<>> THEN [st |-> st, ret |-> <<>>]
    ELSE LET r == atomize(st, Head(params), fuel)
             t == atomizeParams(r.st, Tail(params), fuel)
         IN  [st |-> t.st, ret |-> <<r.ret>> \o t.ret]

\* Reflect.apply(method, self, params): the methods of the containers
\* act on the target; the method of a record is add(x) { return this }.
applyMethod(st, src, key, self, params) ==
    LET kind == st.objs[src].kind
        M == st.objs[src].members
        isMap == kind \in {"Map", "WeakMap"}
        hit == IF isMap THEN \E p \in M : p[1] = params[1] ELSE params[1] \in M
        rest == IF isMap THEN {p \in M : p[1] # params[1]} ELSE M \ {params[1]}
    IN  CASE kind \notin Containers -> [st |-> st, ret |-> self]
          [] kind \in Containers /\ key = "add" ->
                 [st |-> [st EXCEPT !.objs[src].members = M \cup {params[1]}],
                  ret |-> self]
          [] kind \in Containers /\ key = "set" ->
                 [st |-> [st EXCEPT !.objs[src].members =
                                        rest \cup {<<params[1], params[2]>>}],
                  ret |-> self]
          [] kind \in Containers /\ key = "delete" ->
                 [st |-> [st EXCEPT !.objs[src].members = rest], ret |-> Bool(hit)]
          [] kind \in Containers /\ key = "clear" ->
                 [st |-> [st EXCEPT !.objs[src].members = {}], ret |-> Undef]
          [] kind \in Containers /\ key = "has" -> [st |-> st, ret |-> Bool(hit)]
          [] kind \in Containers /\ key = "get" ->
                 [st |-> st,
                  ret |-> IF hit THEN (CHOOSE p \in M : p[1] = params[1])[2] ELSE Undef]

\* The outcome of the apply trap of the method proxy: notify the keys the
\* manual lists for the method, return the result of the method.
methodApplied(r, a, keys, self, params, fuel) ==
    [st |-> IF keys # <<>> THEN notify(r.st, a, keys, {}, fuel) ELSE r.st,
     ret |-> r.ret, self |-> self, params |-> params]

\* The call of the method with the atomized parameters.
methodParams(p, a, src, key, self, keys, fuel) ==
    methodApplied(applyMethod(p.st, src, key, self, p.ret), a, keys, self, p.ret, fuel)

\* wrapper[key](...args): the get trap subscribes the key and Atom.get
\* returns the method proxy, which applies the method to the target when
\* the atom has a manual and to the wrapper when it has none.
methodCall(st, a, key, args, fuel) ==
    methodParams(atomizeParams(subscribe(st, a, key), args, fuel),
                 a, TargetOf(st, a), key,
                 IF st.objs[TargetOf(st, a)].kind \in Containers
                 THEN Raw(TargetOf(st, a)) ELSE Wrap(a),
                 IF st.objs[TargetOf(st, a)].kind \in Containers
                 THEN manuals(st.objs[TargetOf(st, a)].kind, key) ELSE <<>>,
                 fuel)

----------------------------------------------------------------------------
(* User code: observer callbacks, render bodies, focus probes *)

\* w.k1.k2...: one wrapper read per key of the path, starting at atom base.
ReadOp(base, path) == [op |-> "read", base |-> base, path |-> path, body |-> <<>>]
\* unobserve(() => body)
UnobserveOp(body) == [op |-> "unobserve", base |-> 0, path |-> <<>>, body |-> body]
\* if (the value just read is 0) { body }
IfZeroOp(body) == [op |-> "ifzero", base |-> 0, path |-> <<>>, body |-> body]
\* w.map(element => element.k1.k2...), w the wrapper of an array
MapOp(base, path) == [op |-> "map", base |-> base, path |-> path, body |-> <<>>]

\* w.key = value, a write through the wrapper made by the user code
WriteOp(base, key, value) ==
    [op |-> "write", base |-> base, path |-> <<key>>, body |-> <<>>, value |-> value]

\* w.key(...args), a method called through the wrapper by the user code
CallOp(base, key, args) ==
    [op |-> "call", base |-> base, path |-> <<key>>, body |-> <<>>, value |-> args]

\* throw new Error(...)
ThrowOp == [op |-> "throw", base |-> 0, path |-> <<>>, body |-> <<>>]

\* The execution of user code: the program state, the value of the last
\* expression, the reads the code made (un: inside its own unobserve), and
\* whether an exception is propagating.
Start(st) == [st |-> st, ret |-> Undef, log |-> <<>>, thrown |-> FALSE]

RECURSIVE readPath(_, _, _, _)
readPath(e, w, path, un) ==
    IF path = <<>> \/ ~isAtom(w) THEN e
    ELSE LET r == getTrap(e.st, w.v, Head(path))
             entry == [a |-> w.v, key |-> Head(path), un |-> un]
         IN  readPath([e EXCEPT !.st = r.st, !.ret = r.ret, !.log = Append(@, entry)],
                      r.ret, Tail(path), un)

RECURSIVE mapElements(_, _, _, _, _, _)
\* The loop of Array.prototype.map applied to the wrapper: each index
\* below the length read at the start that the target has is read through
\* the get trap and the callback reads its path on the element.
mapElements(e, a, i, len, path, un) ==
    IF i >= len \/ i >= Len(IndexKeys) THEN e
    ELSE IF e.st.objs[TargetOf(e.st, a)].fields[IndexKeys[i + 1]] = Undef
    THEN mapElements(e, a, i + 1, len, path, un)
    ELSE LET e1 == readPath(e, Wrap(a), <<IndexKeys[i + 1]>>, un)
             e2 == readPath(e1, e1.ret, path, un)
         IN  mapElements(e2, a, i + 1, len, path, un)

\* wrapper.map(callback): the method is read through the get trap, then
\* length, then the elements.
mapCall(e, a, path, un) ==
    LET e1 == readPath(e, Wrap(a), <<"map">>, un)
        e2 == readPath(e1, Wrap(a), <<"length">>, un)
    IN  mapElements(e2, a, 0, e2.ret.v, path, un)

\* The user code after a method call that ended as r.
called(e, r, a, key, un) ==
    [e EXCEPT !.st = r.st, !.ret = r.ret,
              !.log = Append(@, [a |-> a, key |-> key, un |-> un])]

RECURSIVE Exec(_, _, _, _)

\* An unobserve that runs the observer without a scan of its own.
unobserve_NoScan(e, body, fuel) == Exec(e, body, TRUE, fuel)

\* unobserve(observer): push a scan, run the observer, remove the scan by
\* identity, return the observer's result.  An exception of the observer
\* leaves the function before the scan is removed.
unobserve(e, body, fuel) ==
    LET id == NewFrameId(e.st)
        e1 == Exec([e EXCEPT !.st = pushFrame(e.st, id)], body, TRUE, fuel)
    IN  IF e1.thrown THEN e1 ELSE [e1 EXCEPT !.st = removeFrame(e1.st, id)]

Exec(e, prog, un, fuel) ==
    IF prog = <<>> \/ e.thrown THEN e
    ELSE IF fuel = 0 THEN [e EXCEPT !.st.overflow = TRUE]
    ELSE LET ins == Head(prog)
             e1 == CASE ins.op = "read" -> readPath(e, Wrap(ins.base), ins.path, un)
                     [] ins.op = "unobserve" -> unobserve(e, ins.body, fuel - 1)
                     [] ins.op = "ifzero" ->
                            IF e.ret = Prim(0) THEN Exec(e, ins.body, un, fuel - 1) ELSE e
                     [] ins.op = "map" -> mapCall(e, ins.base, ins.path, un)
                     [] ins.op = "throw" -> [e EXCEPT !.thrown = TRUE]
                     [] ins.op = "call" ->
                            called(e, methodCall(e.st, ins.base, ins.path[1], ins.value,
                                                 fuel - 1),
                                   ins.base, ins.path[1], un)
                     [] ins.op = "write" ->
                            [e EXCEPT !.st = setTrap(e.st, ins.base, ins.path[1],
                                                     ins.value, fuel - 1)]
                     [] OTHER -> e
         IN  Exec(e1, Tail(prog), un, fuel)

\* The pairs <<atom, key>> the code read outside its own unobserve blocks.
TrackedReads(log) == {<<log[i].a, log[i].key>> : i \in {j \in 1..Len(log) : ~log[j].un}}
\* The pairs it read inside them.
UntrackedReads(log) == {<<log[i].a, log[i].key>> : i \in {j \in 1..Len(log) : log[j].un}}

----------------------------------------------------------------------------
(* observe(observer), its timer and its unsubscribe *)

\* Iteration of the Map scan.states: the atoms in insertion order, and the
\* Set of keys of one atom in insertion order.
RECURSIVE ScanAtoms(_)
ScanAtoms(scan) ==
    IF scan = <<>> THEN <<>>
    ELSE <<Head(scan)[1]>> \o ScanAtoms(SelectSeq(Tail(scan), LAMBDA p : p[1] # Head(scan)[1]))

RECURSIVE ScanKeys(_, _)
ScanKeys(scan, a) ==
    IF scan = <<>> THEN <<>>
    ELSE (IF Head(scan)[1] = a THEN <<Head(scan)[2]>> ELSE <<>>) \o ScanKeys(Tail(scan), a)

RECURSIVE watchAll(_, _, _, _)
\* for (const [ state, keys ] of scan.states) state.watch(keys, observer)
watchAll(st, scan, as, observer) ==
    IF as = <<>> THEN st
    ELSE watchAll(watch(st, Head(as), ScanKeys(scan, Head(as)), observer),
                  scan, Tail(as), observer)

RECURSIVE unwatchAll(_, _, _, _)
\* for (const cleanup of observers) cleanup()
unwatchAll(st, scan, as, observer) ==
    IF as = <<>> THEN st
    ELSE unwatchAll(unwatch(st, Head(as), ScanKeys(scan, Head(as)), observer),
                    scan, Tail(as), observer)

\* observe(observer): push a scan, run the observer, remove the scan, watch
\* every recorded key with update; the closure environment is kept in regs.
\* An exception of the observer leaves the function where it is thrown.
observe(st, cb, body, fuel) ==
    LET id == NewFrameId(st)
        e == Exec(Start(pushFrame(st, id)), body, FALSE, fuel)
        scan == FrameStates(e.st, id)
        s1 == removeFrame(e.st, id)
        r == Len(s1.regs) + 1
        s2 == watchAll(s1, scan, ScanAtoms(scan), Obs("update", r, 0))
        reg == [cb |-> cb, scan |-> scan, timeout |-> FALSE, unsubscribed |-> FALSE,
                first |-> e.log, log |-> e.log, result |-> e.ret]
    IN  IF e.thrown THEN e.st
        ELSE [s2 EXCEPT !.regs = Append(@, reg), !.ran = Append(@, r)]

\* The timer callback of update: observer(); timeout = null.  An
\* exception of the observer leaves the callback before the assignment.
timerFired(st, r, body, fuel) ==
    LET e == Exec(Start(st), body, FALSE, fuel)
    IN  IF e.thrown THEN [e.st EXCEPT !.ran = Append(@, r)]
        ELSE [e.st EXCEPT !.regs[r].timeout = FALSE, !.regs[r].log = e.log,
                          !.regs[r].result = e.ret, !.ran = Append(@, r)]

\* The function observe(observer) returns.
unsubscribe(st, r) ==
    LET scan == st.regs[r].scan
        s1 == unwatchAll(st, scan, ScanAtoms(scan), Obs("update", r, 0))
    IN  [s1 EXCEPT !.regs[r].unsubscribed = TRUE]

\* The pairs on which an observer is registered.
Watched(st, observer) ==
    {p \in (1..Len(st.atoms)) \X Keys : SeqHas(st.atoms[p[1]].observers[p[2]], observer)}

----------------------------------------------------------------------------
(* observe() in a render unit of the host: useState and useEffect *)

NewUnit ==
    [phase |-> "idle", scan |-> 0, installed |-> FALSE, watched |-> <<>>, gen |-> 0,
     pending |-> FALSE, log |-> <<>>, clog |-> <<>>]

\* The pairs recorded by the scan object of a unit.
UnitScan(st, u) ==
    IF st.units[u].scan \in FrameIds(st) THEN FrameStates(st, st.units[u].scan) ELSE <<>>

\* observe() followed by the body of the render: the scan stays pushed.
render(st, u, body, fuel) ==
    LET id == NewFrameId(st)
        e == Exec(Start(pushFrame(st, id)), body, FALSE, fuel)
    IN  [e.st EXCEPT !.units[u].phase = "rendered", !.units[u].scan = id,
                     !.units[u].pending = FALSE, !.units[u].log = e.log]

\* The function the effect returns: every watch of the effect is removed.
effectCleanup(st, u) ==
    LET U == st.units[u]
        s1 == unwatchAll(st, U.watched, ScanAtoms(U.watched), Obs("render", u, U.gen))
    IN  [s1 EXCEPT !.units[u].installed = FALSE, !.units[u].watched = <<>>]

\* A commit that leaves the watches of the previous effect in place.
commit_NoCleanup(st, u) ==
    LET scan == UnitScan(st, u)
        s1 == removeFrame(st, st.units[u].scan)
        gen == 1 - s1.units[u].gen
        s2 == watchAll(s1, scan, ScanAtoms(scan), Obs("render", u, gen))
    IN  [s2 EXCEPT !.units[u].phase = "committed", !.units[u].scan = 0,
                   !.units[u].installed = TRUE, !.units[u].watched = scan,
                   !.units[u].gen = gen, !.units[u].clog = s2.units[u].log]

\* The commit: the host runs the cleanup of the previous effect, then the
\* effect, which removes the scan by identity and watches what it recorded
\* with a fresh closure that requests a re-render.
commit(st, u) ==
    LET s0 == IF st.units[u].installed THEN effectCleanup(st, u) ELSE st
        scan == UnitScan(s0, u)
        s1 == removeFrame(s0, s0.units[u].scan)
        gen == 1 - s1.units[u].gen
        s2 == watchAll(s1, scan, ScanAtoms(scan), Obs("render", u, gen))
    IN  [s2 EXCEPT !.units[u].phase = "committed", !.units[u].scan = 0,
                   !.units[u].installed = TRUE, !.units[u].watched = scan,
                   !.units[u].gen = gen, !.units[u].clog = s2.units[u].log]

\* The host runs the cleanup and the effect of the committed render once
\* more (an effect without dependencies, run again without a render): the
\* scan is no longer on the stack, what it recorded is watched again.
recommit(st, u) ==
    LET scan == st.units[u].watched
        s0 == effectCleanup(st, u)
        s1 == removeFrame(s0, s0.units[u].scan)
        gen == 1 - s1.units[u].gen
        s2 == watchAll(s1, scan, ScanAtoms(scan), Obs("render", u, gen))
    IN  [s2 EXCEPT !.units[u].installed = TRUE, !.units[u].watched = scan,
                   !.units[u].gen = gen]

\* Final teardown of the unit: the host runs the cleanup of its effect.
teardown(st, u) ==
    [effectCleanup(st, u) EXCEPT !.units[u].phase = "unmounted"]

----------------------------------------------------------------------------
(* link, focus, focusAtom *)

\* An Entry of Main.ts: { state, key }.
Entry(state, key) == [state |-> state, key |-> key]

\* Atom.link(key, peer): primary watches this side, secondary the peer.
link(st, self, key, peer) ==
    LET s1 == [st EXCEPT !.links = Append(@, [self |-> self, key |-> key,
                                               peer |-> peer.state, pkey |-> peer.key])]
        l == Len(s1.links)
        s2 == watch(s1, self, <<key>>, Obs("primary", l, 0))
    IN  watch(s2, peer.state, <<peer.key>>, Obs("secondary", l, 0))

\* A focus that makes a new reference at every call.
focus_NoMemo(st, a, key, fuel) ==
    LET s0 == Alloc(st, [NoFields EXCEPT !["value"] = get(st, a, key)])
        r == atom(s0, Raw(Len(s0.objs)), fuel)
        s1 == link(r.st, r.ret.v, "value", Entry(a, key))
    IN  [st |-> [s1 EXCEPT !.atoms[a].references[key] = r.ret.v],
         ret |-> r.ret, err |-> FALSE]

\* Atom.focus(key): the memoized reference of the key, or a new atom of
\* { value: target[key] } linked to the key.
focus(st, a, key, fuel) ==
    IF st.atoms[a].references[key] # 0
    THEN [st |-> st, ret |-> Wrap(st.atoms[a].references[key]), err |-> FALSE]
    ELSE LET s0 == Alloc(st, [NoFields EXCEPT !["value"] = get(st, a, key)])
             r == atom(s0, Raw(Len(s0.objs)), fuel)
             s1 == link(r.st, r.ret.v, "value", Entry(a, key))
         IN  [st |-> [s1 EXCEPT !.atoms[a].references[key] = r.ret.v],
              ret |-> r.ret, err |-> FALSE]

\* The entry scan of focusAtom: the first recorded pair, in the iteration
\* order of scan.states, whose stored value is identical to the result.
RECURSIVE KeyMatch(_, _, _, _)
KeyMatch(st, a, keys, value) ==
    IF keys = <<>> THEN ""
    ELSE IF get(st, a, Head(keys)) = value THEN Head(keys)
    ELSE KeyMatch(st, a, Tail(keys), value)

RECURSIVE EntryScan(_, _, _, _)
EntryScan(st, scan, as, value) ==
    IF as = <<>> THEN Entry(0, "")
    ELSE LET key == KeyMatch(st, Head(as), ScanKeys(scan, Head(as)), value)
         IN  IF key # "" THEN Entry(Head(as), key)
             ELSE EntryScan(st, scan, Tail(as), value)

\* What focusAtom did: the outcome f of the call, with the scan it made
\* and the entry it found.
FocusResult(f, scan, entry) ==
    [st |-> f.st, ret |-> f.ret, err |-> f.err, scan |-> scan, entry |-> entry]

\* The end of focusAtom, once the scan is made and removed: an error is
\* thrown when no entry is found, else the entry is focused.
focusEntry(st, scan, entry, fuel) ==
    IF entry.state = 0
    THEN [st |-> st, ret |-> Undef, err |-> TRUE, scan |-> scan, entry |-> entry]
    ELSE FocusResult(focus(st, entry.state, entry.key, fuel), scan, entry)

\* focusAtom after observer(): the scan is removed from the stack and the
\* entry is looked up in it.  An exception of the observer leaves the
\* function where it is thrown.
focusScanned(e, id, scan, fuel) ==
    IF e.thrown
    THEN [st |-> e.st, ret |-> Undef, err |-> TRUE, scan |-> scan, entry |-> Entry(0, "")]
    ELSE focusEntry(removeFrame(e.st, id), scan,
                    EntryScan(removeFrame(e.st, id), scan, ScanAtoms(scan), e.ret), fuel)

\* focusAtom(observer): push a scan, run the observer, then the above.
focusPushed(e, id, fuel) == focusScanned(e, id, FrameStates(e.st, id), fuel)

focusAtom(st, body, fuel) ==
    focusPushed(Exec(Start(pushFrame(st, NewFrameId(st))), body, FALSE, fuel),
                NewFrameId(st), fuel)

----------------------------------------------------------------------------
(* distill and distillAtom *)

\* An object of the copy distill builds; the copies of one distillAtom call
\* are the sequence out, seen maps an atom state to its copy (0: none).
Copy(i) == [t |-> "copy", v |-> i]
NewCopy(kind) == [kind |-> kind, fields |-> NoFields]
NoSeen(st) == [out |-> <<>>, seen |-> [i \in 1..Len(st.atoms) |-> 0], overflow |-> FALSE]

\* Reflect.ownKeys(this.target)
ownKeys(st, src) == SelectSeq(KeyOrder, LAMBDA k : st.objs[src].fields[k] # Undef)

\* A lookup in seen that finds nothing.
seenGet_Miss(d, state) == 0

\* seen.get(state)
seenGet(d, state) == d.seen[state]

RECURSIVE distill(_, _, _, _)
RECURSIVE distillKeys(_, _, _, _, _, _)

\* The loop of distill over the own keys: the value of a key that holds an
\* atom is the copy seen has for its state or else the distilled state,
\* any other value is assigned as it is.
distillKeys(st, a, keys, idx, d, fuel) ==
    IF keys = <<>> \/ d.overflow THEN d
    ELSE LET key == Head(keys)
             v == st.objs[TargetOf(st, a)].fields[key]
         IN  IF isAtom(v)
             THEN LET r == IF seenGet(d, v.v) # 0
                           THEN [d |-> d, ret |-> Copy(seenGet(d, v.v))]
                           ELSE distill(st, v.v, d, fuel - 1)
                  IN  distillKeys(st, a, Tail(keys), idx,
                                  [r.d EXCEPT !.out[idx].fields[key] = r.ret], fuel)
             ELSE distillKeys(st, a, Tail(keys), idx,
                              [d EXCEPT !.out[idx].fields[key] = v], fuel)

\* Atom.distill(seen): a target without own keys is cloned as it is; any
\* other target is copied key by key into a new plain object {}, which is
\* entered in seen before the keys are visited.
distill(st, a, d, fuel) ==
    IF fuel = 0 THEN [d |-> [d EXCEPT !.overflow = TRUE], ret |-> Undef]
    ELSE LET src == TargetOf(st, a)
             keys == ownKeys(st, src)
             idx == Len(d.out) + 1
         IN  IF keys = <<>>
             THEN [d |-> [d EXCEPT !.out = Append(@, NewCopy(st.objs[src].kind)),
                                    !.seen[a] = idx],
                   ret |-> Copy(idx)]
             ELSE LET d1 == [d EXCEPT !.out = Append(@, NewCopy("record")), !.seen[a] = idx]
                  IN  [d |-> distillKeys(st, a, keys, idx, d1, fuel), ret |-> Copy(idx)]

\* distillAtom(value): the distilled state of a wrapper, any other value
\* as it is.
distillAtom(st, value, fuel) ==
    IF isAtom(value) THEN distill(st, value.v, NoSeen(st), fuel)
    ELSE [d |-> NoSeen(st), ret |-> value]

----------------------------------------------------------------------------
(* The program after construction, and its operations *)

NoOp ==
    [op |-> "init", a |-> 0, key |-> "", id |-> 0, arg |-> Undef, ret |-> Undef,
     err |-> FALSE, made |-> 0, out |-> <<>>, seen |-> <<>>, reads |-> {},
     self |-> Undef]

Empty(heap, nunits) ==
    [objs |-> heap, memoized |-> [i \in 1..Len(heap) |-> 0], atoms |-> <<>>,
     links |-> <<>>, contexts |-> <<>>, regs |-> <<>>,
     units |-> [u \in 1..nunits |-> NewUnit],
     fanout |-> <<>>, ran |-> <<>>, events |-> <<>>, handles |-> <<>>,
     overflow |-> FALSE]

Starts(s) ==
    /\ objs = s.objs
    /\ memoized = s.memoized
    /\ atoms = s.atoms
    /\ links = s.links
    /\ contexts = s.contexts
    /\ regs = s.regs
    /\ units = s.units
    /\ fanout = <<>>
    /\ ran = <<>>
    /\ events = s.events
    /\ handles = s.handles
    /\ overflow = s.overflow
    /\ last = NoOp
    /\ issued = {}

\* const state = atom({ a: 0, b: 0, c: { a: 0 } }): atom 1 is the
\* root, atom 2 the nested record.
Heap0 ==
    <<NewObject([NoFields EXCEPT !["a"] = Prim(0), !["b"] = Prim(0), !["c"] = Raw(2)]),
      NewObject([NoFields EXCEPT !["a"] = Prim(0)])>>

Constructed(nunits) == atom(Empty(Heap0, nunits), Raw(1), MaxDepth).st

\* The observer callbacks and render bodies of the program.
Bodies ==
    <<  <<ReadOp(1, <<"b">>)>>,
        <<ReadOp(1, <<"c", "a">>)>>,
        <<ReadOp(1, <<"a">>), IfZeroOp(<<ReadOp(1, <<"b">>)>>)>>,
        <<ReadOp(1, <<"a">>), UnobserveOp(<<ReadOp(1, <<"b">>)>>), ReadOp(1, <<"c", "a">>)>>,
        <<UnobserveOp(<<ReadOp(1, <<"b">>)>>)>>,
        <<MapOp(1, <<>>)>>,
        <<MapOp(1, <<"a">>)>>,
        <<ReadOp(2, <<"a">>)>>,
        <<ReadOp(1, <<"a">>), ThrowOp>>,
        <<UnobserveOp(<<ReadOp(1, <<"b">>), ThrowOp>>)>>,
        <<ReadOp(1, <<"a">>), IfZeroOp(<<WriteOp(1, "a", Prim(1))>>)>>,
        <<ReadOp(1, <<"c", "a">>), WriteOp(1, "a", Prim(1))>>,
        <<CallOp(1, "has", <<Prim(0)>>)>>,
        <<CallOp(2, "get", <<Prim(0)>>)>>,
        <<CallOp(3, "has", <<Raw(6)>>)>>,
        <<CallOp(4, "get", <<Raw(6)>>)>>  >>

\* The bodies without an unobserve block, and those with one.
PlainBodies == {1, 2, 3}
UnobserveBodies == {4, 5}
\* The bodies over the array users: App maps the elements without reading
\* a field of them, a list reads a field of each element, User reads a
\* field of one element.
ArrayBodies == {6, 7, 8}
\* The bodies that throw: after a read, and inside an unobserve block.
ThrowBodies == {9, 10}
\* The body that writes the field it read: if (state.a === 0) state.a = 1.
WriteBodies == {11}
\* The body that writes a field it does not read: state.c.a; state.a = 1.
ForeignWriteBodies == {12}
\* The bodies over the containers: set.has(0), map.get(0), weakSet.has(o)
\* and weakMap.get(o).
MethodBodies == {13, 14, 15, 16}

PrimFields(st) ==
    {p \in (1..Len(st.atoms)) \X Keys : get(st, p[1], p[2]) \in Prims}

\* The state and the record of the operation after observe(callback)
\* ended in state s: a call that returns has appended its registration.
Observed(s) ==
    /\ Install(s)
    /\ last' = [NoOp EXCEPT !.op = "observe", !.id = Len(regs) + 1,
                            !.err = (Len(s.regs) = Len(regs))]
    /\ UNCHANGED issued

\* observe(callback)
Observe(cb) ==
    /\ Len(regs) < MaxRegs
    /\ Observed(observe(Cur, cb, Bodies[cb], MaxDepth))

\* wrapper[key] = v, from outside any observer
Write(a, key, v) ==
    /\ <<a, key>> \in PrimFields(Cur)
    /\ Install(setTrap(Cur, a, key, v, MaxDepth))
    /\ last' = [NoOp EXCEPT !.op = "write", !.a = a, !.key = key, !.arg = v]
    /\ UNCHANGED issued

\* The timer armed by update fires.
TimerFire(r) ==
    /\ regs[r].timeout
    /\ Install(timerFired(Cur, r, Bodies[regs[r].cb], MaxDepth))
    /\ last' = [NoOp EXCEPT !.op = "timer", !.id = r]
    /\ UNCHANGED issued

\* The function returned by observe(callback) is called.
Unsubscribe(r) ==
    /\ Install(unsubscribe(Cur, r))
    /\ last' = [NoOp EXCEPT !.op = "unsubscribe", !.id = r]
    /\ UNCHANGED issued

\* The host renders the unit: observe(), then the body.
Render(u, b) ==
    /\ units[u].phase \in {"idle", "committed"}
    /\ Install(render(Cur, u, Bodies[b], MaxDepth))
    /\ last' = [NoOp EXCEPT !.op = "render", !.id = u]
    /\ UNCHANGED issued

\* The host commits the render: the effect of observe() runs.
Commit(u) ==
    /\ units[u].phase = "rendered"
    /\ Install(commit(Cur, u))
    /\ last' = [NoOp EXCEPT !.op = "commit", !.id = u]
    /\ UNCHANGED issued

\* The host unmounts the unit.
Teardown(u) ==
    /\ units[u].phase = "committed"
    /\ Install(teardown(Cur, u))
    /\ last' = [NoOp EXCEPT !.op = "teardown", !.id = u]
    /\ UNCHANGED issued

Init == Starts(Constructed(0))

Next ==
    \/ \E cb \in PlainBodies : Observe(cb)
    \/ \E p \in PrimFields(Cur), v \in Prims : Write(p[1], p[2], v)
    \/ \E r \in 1..Len(regs) : TimerFire(r)
    \/ \E r \in 1..Len(regs) : Unsubscribe(r)

Spec == Init /\ [][Next]_vars

----------------------------------------------------------------------------
(* Claims about observe(callback) *)

Active(r) == ~regs[r].unsubscribed
UpdateOf(r) == Obs("update", r, 0)
Notified(r) == \E i \in 1..Len(fanout) : fanout[i].obs = UpdateOf(r)
FirstReads(r) == TrackedReads(regs[r].first)
LastReads(r) == TrackedReads(regs[r].log)

\* C1: after a write through a wrapper, a subscribed observer has been
\* notified if and only if the written field is one of the fields its
\* callback read when it was registered (fields of nested atoms included).
C1_MinimalSubscription ==
    last.op = "write" =>
        \A r \in 1..Len(regs) :
            Active(r) => (Notified(r) <=> <<last.a, last.key>> \in FirstReads(r))

\* A write to a field of the nested atom notified one observer and did not
\* notify another one that had read other fields.
C1_Witness ==
    /\ last.op = "write"
    /\ last.a = 2
    /\ \E r1, r2 \in 1..Len(regs) :
        /\ Active(r1) /\ Active(r2)
        /\ <<last.a, last.key>> \in FirstReads(r1) /\ Notified(r1)
        /\ FirstReads(r2) # {} /\ ~Notified(r2)

\* C2: the subscription set of a registration is the set of pairs its
\* callback read during its most recent run.
C2_SubscriptionIsLastRun ==
    \A r \in 1..Len(regs) :
        Active(r) => Watched(Cur, UpdateOf(r)) = LastReads(r)

\* C3: when a write to a recorded field returns, the callback has been run
\* again and no re-run is left to a timer.
C3_SynchronousRerun ==
    last.op = "write" =>
        \A r \in 1..Len(regs) :
            (Active(r) /\ <<last.a, last.key>> \in Range(regs[r].scan))
                => (SeqHas(ran, r) /\ ~regs[r].timeout)

\* C4: a callback whose unsubscribe function has been called is not run.
C4_NoRunAfterUnsubscribe ==
    \A i \in 1..Len(ran) : ~regs[ran[i]].unsubscribed

----------------------------------------------------------------------------
(* unobserve(callback) inside observe(callback) and inside a render *)

InitUnobserve == Starts(Constructed(1))

NextUnobserve ==
    \/ \E cb \in UnobserveBodies : Observe(cb)
    \/ \E p \in PrimFields(Cur), v \in Prims : Write(p[1], p[2], v)
    \/ \E u \in 1..Len(units), b \in UnobserveBodies : Render(u, b)
    \/ \E u \in 1..Len(units) : Commit(u)

SpecUnobserve == InitUnobserve /\ [][NextUnobserve]_vars

RenderOf(u) == Obs("render", u, units[u].gen)
Rerender(u) == \E i \in 1..Len(fanout) : fanout[i].obs = RenderOf(u)

\* The pairs the code read only inside its unobserve blocks.
OnlyUntracked(log) == UntrackedReads(log) \ TrackedReads(log)

\* C5: a pair read only inside unobserve(fn) is in no recorded set of the
\* enclosing observe(callback) or observe() and a write to it notifies
\* neither; the pairs read outside the unobserve block are recorded; and
\* unobserve returns the result of fn.
C5_UnobserveSuppression ==
    /\ \A r \in 1..Len(regs) :
        /\ OnlyUntracked(regs[r].first) \cap Range(regs[r].scan) = {}
        /\ FirstReads(r) \subseteq Range(regs[r].scan)
        /\ (last.op = "write" /\ <<last.a, last.key>> \in OnlyUntracked(regs[r].first))
              => ~Notified(r)
    /\ \A u \in 1..Len(units) :
        /\ units[u].phase = "rendered" =>
              /\ OnlyUntracked(units[u].log) \cap Range(UnitScan(Cur, u)) = {}
              /\ TrackedReads(units[u].log) \subseteq Range(UnitScan(Cur, u))
        /\ units[u].installed =>
              /\ OnlyUntracked(units[u].clog) \cap Watched(Cur, RenderOf(u)) = {}
              /\ TrackedReads(units[u].clog) \subseteq Watched(Cur, RenderOf(u))
              /\ (last.op = "write" /\ <<last.a, last.key>> \in OnlyUntracked(units[u].clog))
                    => ~Rerender(u)
    /\ (last.op = "observe" /\ regs[last.id].cb = 5)
          => regs[last.id].result = get(Cur, 1, "b")

\* The field read inside unobserve was written while an observe(callback)
\* and a committed render unit both had read it only there, and had
\* recorded the fields they read around the block.
C5_Witness ==
    /\ last.op = "write"
    /\ \E r \in 1..Len(regs) :
        /\ regs[r].cb = 4
        /\ <<last.a, last.key>> \in OnlyUntracked(regs[r].first)
        /\ Range(regs[r].scan) = {<<1, "a">>, <<1, "c">>, <<2, "a">>}
    /\ \E u \in 1..Len(units) :
        /\ units[u].installed
        /\ <<last.a, last.key>> \in OnlyUntracked(units[u].clog)
        /\ TrackedReads(units[u].clog) # {}

----------------------------------------------------------------------------
(* observe() over the render / commit cycles of host units *)

InitHost == Starts(Constructed(1))

NextHost ==
    \/ \E p \in PrimFields(Cur), v \in Prims : Write(p[1], p[2], v)
    \/ \E u \in 1..Len(units), b \in PlainBodies : Render(u, b)
    \/ \E u \in 1..Len(units) : Commit(u)
    \/ \E u \in 1..Len(units) : Teardown(u)

SpecHost == InitHost /\ [][NextHost]_vars

\* The pairs on which some closure of the unit is registered.
UnitWatched(u) ==
    {p \in (1..Len(atoms)) \X Keys :
        \E i \in 1..Len(atoms[p[1]].observers[p[2]]) :
            LET o == atoms[p[1]].observers[p[2]][i]
            IN  o.kind = "render" /\ o.id = u}

\* C8: once a render of a unit is committed, the pairs on which the unit
\* is registered are exactly the pairs read during that render (a write
\* requests a re-render if and only if it is to one of them), and after
\* teardown the unit is registered nowhere.
C8_HostWatchesLastCommit ==
    \A u \in 1..Len(units) :
        /\ units[u].installed =>
              /\ UnitWatched(u) = TrackedReads(units[u].clog)
              /\ Watched(Cur, RenderOf(u)) = UnitWatched(u)
              /\ last.op = "write" =>
                    (Rerender(u) <=> <<last.a, last.key>> \in TrackedReads(units[u].clog))
        /\ ~units[u].installed => UnitWatched(u) = {}

\* A unit committed a second render that read fewer fields than the one
\* before, and a write to a dropped field did not request a re-render.
C8_Witness ==
    /\ last.op = "write"
    /\ \E u \in 1..Len(units) :
        /\ units[u].installed
        /\ units[u].gen = 0
        /\ TrackedReads(units[u].clog) = {<<1, "a">>}
        /\ <<last.a, last.key>> = <<1, "b">>
        /\ ~Rerender(u)

----------------------------------------------------------------------------
(* focusAtom and the linked fields *)

\* The probes passed to focusAtom: () => state.a, () => state.c.a and
\* () => ref.value, ref being the first reference created (atom 3); a
\* probe that reads no atom, () => state.c (a field that holds an atom) and
\* () => state.c.b (a key the nested record does not have).
Probes ==
    <<  <<ReadOp(1, <<"a">>)>>,
        <<ReadOp(1, <<"c", "a">>)>>,
        <<ReadOp(3, <<"value">>)>>,
        <<>>,
        <<ReadOp(1, <<"c">>)>>,
        <<ReadOp(1, <<"c", "b">>)>>,
        <<ReadOp(1, <<"a">>), ThrowOp>>  >>

\* The probes of primitive fields that exist; the probes that return.
LinkProbes == {1, 2, 3}
ReturningProbes == {1, 2, 3, 4, 5, 6}
\* A probe that focuses, one that focusAtom rejects, one that throws.
ThrowProbes == {1, 4, 7}

IsWatcher(o) == o.kind = "watcher"
WatcherOf(w) == Obs("watcher", w, 0)

\* The number of registrations of third-party observers.
RECURSIVE CountIn(_, _)
CountIn(s, x) ==
    IF s = <<>> THEN 0 ELSE (IF Head(s) = x THEN 1 ELSE 0) + CountIn(Tail(s), x)

RECURSIVE SumOver(_, _)
SumOver(F, S) ==
    IF S = {} THEN 0
    ELSE LET x == CHOOSE x \in S : TRUE IN F[x] + SumOver(F, S \ {x})

WatchCount(st) ==
    LET P == (1..Len(st.atoms)) \X Keys
        F == [p \in P |-> Len(SelectSeq(st.atoms[p[1]].observers[p[2]], IsWatcher))]
    IN  SumOver(F, P)

\* The state and the record of the operation after focusAtom returned r.
Focused(r, p) ==
    /\ Install(r.st)
    /\ last' = [NoOp EXCEPT !.op = "focus", !.id = p, !.ret = r.ret, !.err = r.err,
                            !.a = r.entry.state, !.key = r.entry.key,
                            !.reads = Range(r.scan),
                            !.made = Len(r.st.atoms) - Len(atoms)]

\* ref = focusAtom(probe)
FocusAtom(p) ==
    /\ Len(objs) < MaxObjs
    /\ \A i \in 1..Len(Probes[p]) : Probes[p][i].base <= Len(atoms)
    /\ Focused(focusAtom(Cur, Probes[p], MaxDepth), p)
    /\ UNCHANGED issued

\* getAtom(wrapper).watch(key, w), w a callback of the program
Watch(a, key, w) ==
    /\ <<a, key>> \in PrimFields(Cur)
    /\ WatchCount(Cur) < MaxWatches
    /\ Install(watch(Cur, a, <<key>>, WatcherOf(w)))
    /\ last' = [NoOp EXCEPT !.op = "watch", !.a = a, !.key = key, !.id = w]
    /\ UNCHANGED issued

InitLink == Starts(Constructed(0))

NextLink ==
    \/ \E p \in LinkProbes : FocusAtom(p)
    \/ \E p \in PrimFields(Cur), v \in Prims : Write(p[1], p[2], v)
    \/ \E p \in PrimFields(Cur), w \in 1..MaxWatches : Watch(p[1], p[2], w)

SpecLink == InitLink /\ [][NextLink]_vars

\* The fields connected to a field by links, the field included.
LinkedTo(S) ==
    S \cup {<<links[l].peer, links[l].pkey>> :
                l \in {k \in 1..Len(links) : <<links[k].self, links[k].key>> \in S}}
      \cup {<<links[l].self, links[l].key>> :
                l \in {k \in 1..Len(links) : <<links[k].peer, links[k].pkey>> \in S}}

RECURSIVE Group(_)
Group(S) == IF LinkedTo(S) = S THEN S ELSE Group(LinkedTo(S))

\* C6: the two fields of every link hold the same value once an operation
\* has returned, and after a write it is the value written.
C6_LinkValueSync ==
    /\ \A l \in 1..Len(links) :
        get(Cur, links[l].self, links[l].key) = get(Cur, links[l].peer, links[l].pkey)
    /\ last.op = "write" => get(Cur, last.a, last.key) = last.arg

\* A reference of a reference exists, the middle reference was written and
\* the three linked fields changed to the value written.
C6_Witness ==
    /\ last.op = "write"
    /\ last.arg = Prim(1)
    /\ Len(links) = 2
    /\ Group({<<last.a, last.key>>}) = {<<1, "a">>, <<3, "value">>, <<4, "value">>}
    /\ last.a = 3
    /\ get(Cur, 1, "a") = Prim(1)
    /\ get(Cur, 4, "value") = Prim(1)

\* The invocations of an observer for one field, and all its invocations.
Fired(o, a, key) == CountIn(fanout, [obs |-> o, atom |-> a, key |-> key])
FiredAll(o) == Len(SelectSeq(fanout, LAMBDA f : f.obs = o))

Watchers == {WatcherOf(w) : w \in 1..MaxWatches}
WatchesOf(o) == Watched(Cur, o)

\* C7 as amended: one write to a linked field ends, and invokes every
\* third-party observer once for each linked field it watches, and for no
\* other field.
C7_OncePerWatchedSide ==
    last.op = "write" =>
        /\ ~overflow
        /\ \A o \in Watchers, p \in (1..Len(atoms)) \X Keys :
              Fired(o, p[1], p[2]) =
                  IF p \in Group({<<last.a, last.key>>}) /\ p \in WatchesOf(o) THEN 1 ELSE 0

\* One side of a link was written; an observer of the other side and an
\* observer of the written side were each invoked once.
C7_Witness ==
    /\ last.op = "write"
    /\ last.a = 1
    /\ Len(links) >= 1
    /\ WatchesOf(WatcherOf(1)) = {<<1, "a">>}
    /\ WatchesOf(WatcherOf(2)) = {<<3, "value">>}
    /\ FiredAll(WatcherOf(1)) = 1
    /\ FiredAll(WatcherOf(2)) = 1

\* C7 as stated: one write to a linked field invokes every third-party
\* observer watching one of the linked fields exactly once.
C7_ExactlyOnce ==
    last.op = "write" =>
        /\ ~overflow
        /\ \A o \in Watchers :
              (WatchesOf(o) \cap Group({<<last.a, last.key>>}) # {}) => FiredAll(o) = 1

----------------------------------------------------------------------------
(* atom called on sources, wrappers and primitives *)

\* Two records that refer to each other through c, and a record marked by
\* unatom; nothing is atomized yet.
HeapAtom ==
    <<NewObject([NoFields EXCEPT !["a"] = Prim(0), !["c"] = Raw(2)]),
      NewObject([NoFields EXCEPT !["a"] = Prim(0), !["c"] = Raw(1)]),
      [NewObject([NoFields EXCEPT !["a"] = Prim(0)]) EXCEPT !.unatom = TRUE]>>

Raws(st) == {Raw(o) : o \in 1..Len(st.objs)}
Wraps(st) == {Wrap(i) : i \in 1..Len(st.atoms)}

\* w = atom(v)
AtomCall(v) ==
    /\ isArticle(v) \/ Len(objs) < MaxObjs
    /\ LET r == atom(Cur, v, MaxDepth)
       IN  /\ Install(r.st)
           /\ last' = [NoOp EXCEPT !.op = "atom", !.arg = v, !.ret = r.ret,
                                   !.made = Len(r.st.atoms) - Len(atoms)]
           /\ issued' = IF isArticle(v) THEN issued \cup {<<v, r.ret>>} ELSE issued

\* wrapper.c = v, v a primitive, a source object or a wrapper
WriteAny(a, v) ==
    /\ Install(setTrap(Cur, a, "c", v, MaxDepth))
    /\ last' = [NoOp EXCEPT !.op = "write", !.a = a, !.key = "c", !.arg = v]
    /\ UNCHANGED issued

InitAtom == Starts(Empty(HeapAtom, 0))

NextAtom ==
    \/ \E v \in Raws(Cur) \cup Wraps(Cur) \cup {Prim(0)} : AtomCall(v)
    \/ \E a \in 1..Len(atoms), v \in Raws(Cur) \cup Wraps(Cur) \cup {Prim(0)} : WriteAny(a, v)

SpecAtom == InitAtom /\ [][NextAtom]_vars

\* C9: no two atom states have the same source object, the memo table maps
\* a source to the state made for it, and all the calls atom(v) made for
\* one source v returned the same value.
C9_IdentityStability ==
    /\ \A i, j \in 1..Len(atoms) : atoms[i].target = atoms[j].target => i = j
    /\ \A o \in 1..Len(objs) : memoized[o] # 0 => atoms[memoized[o]].target = o
    /\ \A p, q \in issued : p[1] = q[1] => p[2] = q[2]

\* atom(v) was called on a source that had been atomized as a field of
\* another one, after a field was overwritten, and returned the wrapper
\* the memo table holds without creating a state.
C9_Witness ==
    /\ last.op = "atom"
    /\ last.arg = Raw(2)
    /\ last.made = 0
    /\ last.ret = Wrap(memoized[2])
    /\ <<Raw(1), Wrap(1)>> \in issued
    /\ objs[1].fields["c"] # Wrap(2)

\* C10: atom(w) of a wrapper w returns w and creates no atom state.
C10_ReatomizeIsNoOp ==
    (last.op = "atom" /\ isAtom(last.arg)) => (last.ret = last.arg /\ last.made = 0)

\* C11: every object stored in a field of an atomized target is an atom
\* wrapper, unless the object was marked by unatom; a primitive written
\* through a wrapper is stored as it is, and an object written through a
\* wrapper is stored as the wrapper of its atom.
C11_RecursiveAtomization ==
    /\ \A i \in 1..Len(atoms), k \in Keys :
          LET v == get(Cur, i, k)
          IN  isArticle(v) => objs[v.v].unatom
    /\ (last.op = "write" /\ ~isArticle(last.arg)) => get(Cur, last.a, last.key) = last.arg
    /\ (last.op = "write" /\ isArticle(last.arg) /\ ~objs[last.arg.v].unatom)
          => /\ memoized[last.arg.v] # 0
             /\ get(Cur, last.a, last.key) = Wrap(memoized[last.arg.v])

\* A record that refers back to another one was written, not yet atomized,
\* into a field of a reference atom: the write atomized both records of
\* the cycle and their fields hold each other's wrappers.
C11_Witness ==
    /\ last.op = "write"
    /\ last.arg = Raw(2)
    /\ atoms[last.a].target > Len(HeapAtom)
    /\ memoized[1] > memoized[2]
    /\ objs[2].fields["c"] = Wrap(memoized[1])
    /\ objs[1].fields["c"] = Wrap(memoized[2])

----------------------------------------------------------------------------
(* distillAtom over records, arrays, shared and cyclic atoms *)

\* user = { a: 0, c: [ { a: 0 }, 1 ] } (objects 1, 2, 3); two records that
\* refer to each other, the second one twice in the first (4, 5); and a
\* record marked by unatom (6).  Nothing is atomized yet.
HeapDistill ==
    <<NewObject([NoFields EXCEPT !["a"] = Prim(0), !["c"] = Raw(2)]),
      NewArray(<<Raw(3), Prim(1)>>),
      NewObject([NoFields EXCEPT !["a"] = Prim(0)]),
      NewObject([NoFields EXCEPT !["b"] = Raw(5), !["c"] = Raw(5)]),
      NewObject([NoFields EXCEPT !["a"] = Prim(0), !["c"] = Raw(4)]),
      [NewObject([NoFields EXCEPT !["a"] = Prim(0)]) EXCEPT !.unatom = TRUE]>>

\* d = distillAtom(w)
Distill(w) ==
    /\ LET r == distillAtom(Cur, w, MaxDepth)
       IN  /\ Install([Cur EXCEPT !.overflow = @ \/ r.d.overflow])
           /\ last' = [NoOp EXCEPT !.op = "distill", !.arg = w, !.ret = r.ret,
                                   !.out = r.d.out, !.seen = r.d.seen]
    /\ UNCHANGED issued

InitDistill == Starts(Empty(HeapDistill, 0))

NextDistill ==
    \/ \E v \in Raws(Cur) : AtomCall(v)
    \/ \E a \in {i \in 1..Len(atoms) : atoms[i].target = 3}, v \in {Raw(6), Prim(1)} :
          WriteAny(a, v)
    \/ \E w \in Wraps(Cur) : Distill(w)

SpecDistill == InitDistill /\ [][NextDistill]_vars

\* The values held by the objects of the copy, and the result itself.
OutValues == {last.ret} \cup {last.out[i].fields[k] : i \in 1..Len(last.out), k \in Keys}

\* C12: the result of distillAtom(w) and every value reachable from it is
\* a primitive or an object made by this call, never an atom wrapper and
\* never an object held by a field of an atom's target.
C12_DistillNoAlias ==
    (last.op = "distill" /\ isAtom(last.arg)) =>
        \A v \in OutValues : ~isAtom(v) /\ ~isArticle(v)

RECURSIVE PlainTree(_, _)
\* The value is a primitive, or the wrapper of a record or array whose
\* values are such values again (down to the given depth).
PlainTree(v, fuel) ==
    \/ v.t \in {"prim", "undef"}
    \/ /\ isAtom(v)
       /\ fuel > 0
       /\ \A k \in Keys : PlainTree(get(Cur, v.v, k), fuel - 1)

RECURSIVE DeepEqual(_, _, _)
\* Structural equality of an atomized value and a value of the copy: same
\* primitive, or same kind of container with equal values under every key.
DeepEqual(v, c, fuel) ==
    IF isAtom(v)
    THEN /\ c.t = "copy"
         /\ fuel > 0
         /\ last.out[c.v].kind = objs[atoms[v.v].target].kind
         /\ \A k \in Keys : DeepEqual(get(Cur, v.v, k), last.out[c.v].fields[k], fuel - 1)
    ELSE c = v

\* C13: for x built from nested records and arrays of primitives,
\* distillAtom(atom(x)) is deeply equal to x: the same kind of container at
\* every level, the same keys, the same values.
C13_DistillRoundTrip ==
    (last.op = "distill" /\ PlainTree(last.arg, MaxDepth))
        => DeepEqual(last.arg, last.ret, MaxDepth)

\* The atoms distill reached.
Reached == {a \in 1..Len(last.seen) : last.seen[a] # 0}

\* C14: distillAtom ends, also on cyclic atoms; every atom it reached has
\* exactly one copy, and wherever a reached atom holds a wrapper its copy
\* holds the one copy of that wrapper's atom.
C14_DistillKeepsSharing ==
    (last.op = "distill" /\ isAtom(last.arg)) =>
        /\ ~overflow
        /\ last.ret = Copy(last.seen[last.arg.v])
        /\ Cardinality(Reached) = Len(last.out)
        /\ \A a, b \in Reached : last.seen[a] = last.seen[b] => a = b
        /\ \A a \in Reached, k \in Keys :
              LET v == get(Cur, a, k)
              IN  isAtom(v) => /\ v.v \in Reached
                               /\ last.out[last.seen[a]].fields[k] = Copy(last.seen[v.v])

\* The record that holds another record twice, which refers back to it,
\* was distilled: two copies, the first holds the second twice and the
\* second holds the first.
C14_Witness ==
    /\ last.op = "distill"
    /\ isAtom(last.arg)
    /\ atoms[last.arg.v].target = 4
    /\ get(Cur, last.arg.v, "b") = get(Cur, last.arg.v, "c")
    /\ Len(last.out) = 2
    /\ last.out[1].fields["b"] = Copy(2)
    /\ last.out[1].fields["c"] = Copy(2)
    /\ last.out[2].fields["c"] = Copy(1)

----------------------------------------------------------------------------
(* whenAtom *)

Whens == SelectSeq(events, LAMBDA e : e.ev = "when")
Calls == SelectSeq(events, LAMBDA e : e.ev = "call")

\* whenAtom(target, callback), callback a new closure
WhenAtom(o) ==
    /\ Len(Whens) < MaxCallbacks
    /\ Install(whenAtom(Cur, o, Len(Whens) + 1))
    /\ last' = [NoOp EXCEPT !.op = "when", !.arg = Raw(o), !.id = Len(Whens) + 1]
    /\ UNCHANGED issued

InitWhen == Starts(Empty(HeapAtom, 0))

NextWhen ==
    \/ \E o \in 1..Len(objs) : WhenAtom(o)
    \/ \E v \in Raws(Cur) : AtomCall(v)
    \/ \E a \in 1..Len(atoms), v \in Raws(Cur) \cup {Prim(0)} : WriteAny(a, v)

SpecWhen == InitWhen /\ [][NextWhen]_vars

\* The callbacks registered on a target before it was atomized, in the
\* order of registration, and the callbacks called for a target, in the
\* order of the calls.
EarlyOn(o) == SelectSeq(Whens, LAMBDA e : e.target = o /\ e.wrapper = Undef)
CalledOn(o) == SelectSeq(Calls, LAMBDA e : e.target = o)
CbsOf(s) == [i \in 1..Len(s) |-> s[i].cb]

\* C15: once a target is atomized, the callbacks registered on it before
\* have been called exactly once each, in the order of registration, with
\* the wrapper of the target and after every field of the target was
\* atomized; no other call is ever made, and none before the target is
\* atomized.
C15_WhenAtomOrdering ==
    \A o \in 1..Len(objs) :
        /\ memoized[o] = 0 => CalledOn(o) = <<>>
        /\ memoized[o] # 0 =>
              /\ CbsOf(CalledOn(o)) = CbsOf(EarlyOn(o))
              /\ \A i \in 1..Len(CalledOn(o)) :
                    /\ CalledOn(o)[i].wrapper = Wrap(memoized[o])
                    /\ CalledOn(o)[i].raw = {}

\* Two callbacks were registered on a record and one on the record it
\* forms a cycle with; all three were called when the cycle was atomized,
\* the two in their order, and an atom() call on the first record and a
\* later write of an object into one of its fields called nothing more.
C15_Witness ==
    /\ Len(EarlyOn(1)) = 2
    /\ Len(EarlyOn(2)) = 1
    /\ Len(Calls) = 3
    /\ CbsOf(CalledOn(1)) = CbsOf(EarlyOn(1))
    /\ <<Raw(1), Wrap(memoized[1])>> \in issued
    /\ last.op = "write"
    /\ atoms[last.a].target = 1
    /\ isArticle(last.arg)

----------------------------------------------------------------------------
(* focusAtom on probes that read no field, several fields, a field that
   holds an atom, or a key that is absent *)

InitFocus == Starts(Constructed(0))

NextFocus ==
    \/ \E p \in ReturningProbes : FocusAtom(p)
    \/ \E p \in PrimFields(Cur), v \in Prims : Write(p[1], p[2], v)

SpecFocus == InitFocus /\ [][NextFocus]_vars

\* The focus made a reference: a new atom and a new link.
MadeReference == last.made > 0

\* C16: focusAtom(probe) ends with an error, and without a reference or a
\* link, exactly when the probe did not read one single (atom, field)
\* pair.
C16_FocusNeedsOnePair ==
    last.op = "focus" =>
        /\ last.err <=> Cardinality(last.reads) # 1
        /\ last.err => (last.ret = Undef /\ ~MadeReference)

\* C17: focusing a key the atom does not have, or a key whose value is an
\* atom, ends with an error and makes no reference.
C17_InvalidFocusKey ==
    (last.op = "focus" /\ last.a # 0 /\ get(Cur, last.a, last.key) \notin Prims)
        => (last.err /\ ~isAtom(last.ret))

----------------------------------------------------------------------------
(* A render unit over an atomized array *)

\* users = atom([ { a: 0 } ]) (atom 1, element atom 2) and one more
\* atomized record (atom 3) that the program puts into the array.
HeapArray ==
    <<NewArray(<<Raw(2)>>),
      NewObject([NoFields EXCEPT !["a"] = Prim(0)]),
      NewObject([NoFields EXCEPT !["a"] = Prim(0)])>>

ConstructedArray ==
    atom(atom(Empty(HeapArray, 1), Raw(1), MaxDepth).st, Raw(3), MaxDepth).st

IsArray(st, a) == st.objs[TargetOf(st, a)].kind = "array"
LengthOf(st, a) == st.objs[TargetOf(st, a)].fields["length"].v
Records(st) == {Wrap(i) : i \in {j \in 1..Len(st.atoms) : ~IsArray(st, j)}}

\* No render is waiting for its commit: the program runs its handlers.
Quiet == \A u \in 1..Len(units) : units[u].phase # "rendered"

\* users.push(x)
Push(a, x) ==
    /\ Quiet
    /\ IsArray(Cur, a)
    /\ LengthOf(Cur, a) < Len(IndexKeys)
    /\ Install(push(Cur, a, x, MaxDepth))
    /\ last' = [NoOp EXCEPT !.op = "push", !.a = a, !.arg = x, !.id = LengthOf(Cur, a)]
    /\ UNCHANGED issued

\* users.pop()
Pop(a) ==
    /\ Quiet
    /\ IsArray(Cur, a)
    /\ Install(pop(Cur, a, MaxDepth))
    /\ last' = [NoOp EXCEPT !.op = "pop", !.a = a, !.id = LengthOf(Cur, a)]
    /\ UNCHANGED issued

\* users[i] = x, i an index the array has or the one after the last;
\* last.id is the length before the assignment.
SetIndex(a, i, x) ==
    /\ Quiet
    /\ IsArray(Cur, a)
    /\ i <= LengthOf(Cur, a)
    /\ Install(setTrap(Cur, a, IndexKeys[i + 1], x, MaxDepth))
    /\ last' = [NoOp EXCEPT !.op = "setindex", !.a = a, !.key = IndexKeys[i + 1],
                            !.arg = x, !.id = LengthOf(Cur, a)]
    /\ UNCHANGED issued

InitArray == Starts(ConstructedArray)

NextArray ==
    \/ \E a \in 1..Len(atoms), x \in Records(Cur) : Push(a, x)
    \/ \E a \in 1..Len(atoms) : Pop(a)
    \/ \E a \in 1..Len(atoms), i \in 0..(Len(IndexKeys) - 1), x \in Records(Cur) :
          SetIndex(a, i, x)
    \/ Quiet /\ \E p \in PrimFields(Cur), v \in Prims : Write(p[1], p[2], v)
    \/ \E u \in 1..Len(units), b \in ArrayBodies : Render(u, b)
    \/ \E u \in 1..Len(units) : Commit(u)

SpecArray == InitArray /\ [][NextArray]_vars

\* The last operation changed the array: an element was appended, removed
\* or replaced, or length was written.
ArrayChanged ==
    \/ last.op \in {"push", "pop", "setindex"}
    \/ last.op = "write" /\ IsArray(Cur, last.a)

\* The last operation wrote a field of a record.
ElementWritten == last.op = "write" /\ ~IsArray(Cur, last.a)

\* The committed render of the unit iterated the array with map, and the
\* fields of records it read.
Iterated(u) == \E a \in 1..Len(atoms) : <<a, "map">> \in TrackedReads(units[u].clog)
ElementReads(u) == {p \in TrackedReads(units[u].clog) : ~IsArray(Cur, p[1])}

\* C18: a committed unit that iterated the array with map has a re-render
\* requested once the array changes; if it read no field of a record, the
\* write of a field of a record requests none; a unit that read a field of
\* a record has a re-render requested once that field is written.
C18_ArrayIteration ==
    \A u \in 1..Len(units) :
        (units[u].installed /\ units[u].phase = "committed") =>
            /\ (Iterated(u) /\ ArrayChanged) => units[u].pending
            /\ (Iterated(u) /\ ElementReads(u) = {} /\ ElementWritten) => ~Rerender(u)
            /\ (ElementWritten /\ <<last.a, last.key>> \in ElementReads(u))
                  => units[u].pending

----------------------------------------------------------------------------
(* Callbacks and probes that throw *)

\* unobserve(fn), called outside any observer
Unobserve(b) ==
    /\ LET e == unobserve(Start(Cur), Bodies[b], MaxDepth)
       IN  /\ Install(e.st)
           /\ last' = [NoOp EXCEPT !.op = "unobserve", !.id = b, !.ret = e.ret,
                                   !.err = e.thrown]
    /\ UNCHANGED issued

\* wrapper[key] read by code outside any observer
Read(a, key) ==
    /\ LET r == getTrap(Cur, a, key)
       IN  /\ Install(r.st)
           /\ last' = [NoOp EXCEPT !.op = "read", !.a = a, !.key = key, !.ret = r.ret]
    /\ UNCHANGED issued

InitThrow == Starts(Constructed(0))

NextThrow ==
    \/ Len(contexts) < MaxFrames /\ \E cb \in ThrowBodies \cup {1} : Observe(cb)
    \/ Len(contexts) < MaxFrames /\ \E b \in ThrowBodies \cup {1} : Unobserve(b)
    \/ Len(contexts) < MaxFrames /\ \E p \in ThrowProbes : FocusAtom(p)
    \/ \E key \in {"a", "b"} : Read(1, key)
    \/ \E p \in PrimFields(Cur), v \in Prims : Write(p[1], p[2], v)

SpecThrow == InitThrow /\ [][NextThrow]_vars

\* C19: a call of observe(callback), unobserve(callback) or focusAtom that
\* ends with an error (its callback threw, or focusAtom rejected the
\* probe) leaves the scan stack as it was before the call.
C19_PushPopPairing ==
    [][(last'.op \in {"observe", "unobserve", "focus"} /\ last'.err)
          => contexts' = contexts]_vars

----------------------------------------------------------------------------
(* Reads made by other code between a render and its commit *)

InitWindow == Starts(Constructed(1))

NextWindow ==
    \/ \E u \in 1..Len(units), b \in PlainBodies : Render(u, b)
    \/ \E u \in 1..Len(units) : Commit(u)
    \/ \E p \in PrimFields(Cur) : Read(p[1], p[2])
    \/ \E p \in PrimFields(Cur), v \in Prims : Write(p[1], p[2], v)

SpecWindow == InitWindow /\ [][NextWindow]_vars

\* C20: while a unit waits for its commit, its scan holds only pairs that
\* its own render read, and the pairs the unit is registered on after the
\* commit are pairs that its committed render read.
C20_WindowReadsNotAttributed ==
    \A u \in 1..Len(units) :
        /\ units[u].phase = "rendered"
              => Range(UnitScan(Cur, u)) \subseteq TrackedReads(units[u].log)
        /\ units[u].installed => UnitWatched(u) \subseteq TrackedReads(units[u].clog)

----------------------------------------------------------------------------
(* Fields linked with Atom.link by the program *)

\* The two fields are already the two sides of one link.
Linked(p, q) ==
    \E l \in 1..Len(links) :
        \/ <<links[l].self, links[l].key>> = p /\ <<links[l].peer, links[l].pkey>> = q
        \/ <<links[l].self, links[l].key>> = q /\ <<links[l].peer, links[l].pkey>> = p

\* getAtom(x).link(k, { state: getAtom(y), key: j }) on two fields that
\* are not yet the two sides of a link.
Link(p, q) ==
    /\ Len(links) < MaxLinks
    /\ p # q
    /\ ~Linked(p, q)
    /\ Install(link(Cur, p[1], p[2], Entry(q[1], q[2])))
    /\ last' = [NoOp EXCEPT !.op = "link", !.a = p[1], !.key = p[2]]
    /\ UNCHANGED issued

NextRing ==
    \/ \E p, q \in PrimFields(Cur) : Link(p, q)
    \/ \E p \in PrimFields(Cur), v \in Prims : Write(p[1], p[2], v)

SpecRing == Init /\ [][NextRing]_vars

\* The closures primary and secondary of the links.
IsLinkObserver(o) == o.kind \in {"primary", "secondary"}

\* C21: one write to a field ends, runs no primary or secondary closure of
\* a link twice, and leaves every field linked to the written one, directly
\* or through other links, holding the value written.
C21_LinkCascadeTerminates ==
    last.op = "write" =>
        /\ ~overflow
        /\ \A i, j \in 1..Len(fanout) :
              (IsLinkObserver(fanout[i].obs) /\ fanout[i].obs = fanout[j].obs) => i = j
        /\ \A p \in Group({<<last.a, last.key>>}) : get(Cur, p[1], p[2]) = last.arg

----------------------------------------------------------------------------
(* Writes made while a re-run is pending and by the re-run itself *)

NextRerun ==
    \/ \E cb \in WriteBodies \cup {1} : Observe(cb)
    \/ \E p \in PrimFields(Cur), v \in Prims : Write(p[1], p[2], v)
    \/ \E r \in 1..Len(regs) : TimerFire(r)
    \/ \E r \in 1..Len(regs) : Unsubscribe(r)

SpecRerun == Init /\ [][NextRerun]_vars

\* C22: when an operation notified the update closure of a subscribed
\* callback, a re-run of the callback is pending once the operation has
\* ended, so the callback runs after the write, also when the write was
\* made by the re-run itself; the timer runs the callback once whatever
\* the number of writes that preceded it.
C22_NoLostNotification ==
    /\ \A r \in 1..Len(regs) : (Active(r) /\ Notified(r)) => regs[r].timeout
    /\ last.op = "timer" => ran = <<last.id>>

----------------------------------------------------------------------------
(* Observers that read, called by a write made inside a scan *)

\* A callback given to watch that reads a field: () => { wrapper.b }
ReaderOf(a) == Obs("reader", a, 0)

\* getAtom(wrapper).watch(key, () => { state.b })
WatchReader(a, key) ==
    /\ <<a, key>> \in PrimFields(Cur)
    /\ ~SeqHas(atoms[a].observers[key], ReaderOf(1))
    /\ Install(watch(Cur, a, <<key>>, ReaderOf(1)))
    /\ last' = [NoOp EXCEPT !.op = "watch", !.a = a, !.key = key]
    /\ UNCHANGED issued

NextScope ==
    \/ \E p \in PrimFields(Cur) : WatchReader(p[1], p[2])
    \/ \E cb \in ForeignWriteBodies \cup {1} : Observe(cb)
    \/ \E p \in PrimFields(Cur), v \in Prims : Write(p[1], p[2], v)
    \/ \E r \in 1..Len(regs) : TimerFire(r)

SpecScope == Init /\ [][NextScope]_vars

\* C23: the scan of an observe(callback) call holds the pairs the callback
\* read itself and nothing else: the reads of the observers notified by a
\* write the callback made are not recorded in it.
C23_NotifiedReadsOutOfScan ==
    (last.op = "observe" /\ ~last.err) =>
        Range(regs[last.id].scan) = FirstReads(last.id)

----------------------------------------------------------------------------
(* Two render units: several frames on the scan stack *)

\* The host runs the effect of a committed unit again.
Recommit(u) ==
    /\ units[u].phase = "committed"
    /\ Install(recommit(Cur, u))
    /\ last' = [NoOp EXCEPT !.op = "recommit", !.id = u]
    /\ UNCHANGED issued

InitStack == Starts(Constructed(2))

NextStack ==
    \/ \E u \in 1..Len(units), b \in {1, 4} : Render(u, b)
    \/ \E u \in 1..Len(units) : Commit(u)
    \/ \E u \in 1..Len(units) : Recommit(u)
    \/ \E p \in PrimFields(Cur) : Read(p[1], p[2])

SpecStack == InitStack /\ [][NextStack]_vars

\* C24: a read through a wrapper returns the value of the field and adds
\* the pair to the topmost frame only (to none when the stack is empty);
\* a render leaves the frames below its own as they were and its own frame
\* holds the pairs it read outside its unobserve blocks, those read after
\* an inner frame was removed included.
C24_TopFrameOnly ==
    [][ /\ last'.op = "read" =>
            /\ last'.ret = get(Cur, last'.a, last'.key)
            /\ contexts' =
                 IF contexts = <<>> THEN <<>>
                 ELSE [contexts EXCEPT ![Len(contexts)].states =
                                            AddLast(@, <<last'.a, last'.key>>)]
        /\ last'.op = "render" =>
            /\ Len(contexts') = Len(contexts) + 1
            /\ SubSeq(contexts', 1, Len(contexts)) = contexts
            /\ Range(contexts'[Len(contexts')].states) = TrackedReads(units'[last'.id].log)
      ]_vars

\* A unit was rendered above the frame of the other unit; it read a field
\* inside an unobserve block and another field after the block.
C24_Witness ==
    /\ last.op = "render"
    /\ Len(contexts) = 2
    /\ contexts[1].states # <<>>
    /\ UntrackedReads(units[last.id].log) = {<<1, "b">>}
    /\ <<2, "a">> \in Range(contexts[2].states)
    /\ <<1, "b">> \notin Range(contexts[2].states)

\* C25: the effect of a unit removes the frame of that unit and no other:
\* the other frames stay in their order with what they recorded, and when
\* the frame is not on the stack the stack is unchanged.
C25_RemovalByIdentity ==
    [][ last'.op \in {"commit", "recommit"} =>
            /\ contexts' = SelectSeq(contexts, LAMBDA f : f.id # units[last'.id].scan)
            /\ Len(contexts') = Len(contexts)
                   - (IF units[last'.id].scan \in FrameIds(Cur) THEN 1 ELSE 0)
      ]_vars

\* Unit 1 was rendered first and committed first: the frame of unit 2,
\* pushed above it, is the one left on the stack.
C25_Witness ==
    /\ last.op = "commit"
    /\ last.id = 1
    /\ units[2].phase = "rendered"
    /\ units[2].scan = 2
    /\ Len(contexts) = 1
    /\ contexts[1].id = 2
    /\ contexts[1].states # <<>>

----------------------------------------------------------------------------
(* The closures returned by Atom.watch *)

\* The lists of keys the program passes to watch.
KeyLists == {<<"a">>, <<"b">>, <<"a", "b">>}

\* h = getAtom(wrapper).watch(keys, w): the returned closure is kept.
WatchKeys(a, keys, w) ==
    /\ Len(handles) < MaxWatches
    /\ Install([watch(Cur, a, keys, WatcherOf(w)) EXCEPT
                    !.handles = Append(@, [a |-> a, keys |-> keys,
                                           observer |-> WatcherOf(w), called |-> FALSE])])
    /\ last' = [NoOp EXCEPT !.op = "watch", !.a = a, !.id = w]
    /\ UNCHANGED issued

\* h(): the closure returned by watch is called, for the first time or again.
Unwatch(h) ==
    /\ Install([unwatch(Cur, handles[h].a, handles[h].keys, handles[h].observer)
                    EXCEPT !.handles[h].called = TRUE])
    /\ last' = [NoOp EXCEPT !.op = "unwatch", !.id = h]
    /\ UNCHANGED issued

NextWatch ==
    \/ \E keys \in KeyLists, w \in 1..MaxWatches : WatchKeys(1, keys, w)
    \/ \E h \in 1..Len(handles) : Unwatch(h)
    \/ \E p \in PrimFields(Cur), v \in Prims : Write(p[1], p[2], v)

SpecWatch == Init /\ [][NextWatch]_vars

\* C26: calling the closure returned by watch(keys, observer) changes the
\* observer sets of the given keys only and removes nothing but that
\* observer; every registration whose closure has not been called is
\* still in place afterwards, and a second call changes nothing.
C26_UnwatchExact ==
    [][ last'.op = "unwatch" =>
            LET H == handles[last'.id]
            IN  /\ \A p \in (1..Len(atoms)) \X Keys :
                      atoms'[p[1]].observers[p[2]] =
                          IF p[1] = H.a /\ SeqHas(H.keys, p[2])
                          THEN Without(atoms[p[1]].observers[p[2]], H.observer)
                          ELSE atoms[p[1]].observers[p[2]]
                /\ \A g \in 1..Len(handles') :
                      ~handles'[g].called =>
                          \A i \in 1..Len(handles'[g].keys) :
                              SeqHas(atoms'[handles'[g].a].observers[handles'[g].keys[i]],
                                     handles'[g].observer)
                /\ H.called => atoms' = atoms
      ]_vars

----------------------------------------------------------------------------
(* Observers that change the observer set while they are notified *)

\* The callbacks the program gives to watch: a plain one, one that calls
\* the closure its own watch returned (h = s.watch(k, () => h())), and
\* one that watches the same key with a plain callback.
Callbacks ==
    {Obs(kind, n, 0) : kind \in {"watcher", "leaver", "adder"}, n \in 1..MaxWatches}

\* getAtom(state).watch('a', o)
WatchWith(o) ==
    /\ Len(atoms[1].observers["a"]) <= MaxWatches
    /\ Install(watch(Cur, 1, <<"a">>, o))
    /\ last' = [NoOp EXCEPT !.op = "watch", !.a = 1, !.key = "a"]
    /\ UNCHANGED issued

NextFanout ==
    \/ \E o \in Callbacks : WatchWith(o)
    \/ \E v \in Prims : Write(1, "a", v)

SpecFanout == Init /\ [][NextFanout]_vars

\* C27: a write to a field invokes the observers registered on the field
\* once each in the order of their registration, an observer that removes
\* itself included, followed by the observers registered during the
\* fan-out, once each in the order of their registration.
C27_FanoutOrder ==
    [][ last'.op = "write" =>
            LET before == atoms[last'.a].observers[last'.key]
                after == atoms'[last'.a].observers[last'.key]
                added == SelectSeq(after, LAMBDA o : ~SeqHas(before, o))
            IN  /\ ~overflow'
                /\ [i \in 1..Len(fanout') |-> fanout'[i].obs] = before \o added
                /\ \A i \in 1..Len(fanout') :
                      fanout'[i].atom = last'.a /\ fanout'[i].key = last'.key
      ]_vars

\* The write invoked an observer that removed itself, then one that
\* registered a new observer, then the new observer.
C27_Witness ==
    /\ last.op = "write"
    /\ [i \in 1..Len(fanout) |-> fanout[i].obs] =
           <<Obs("leaver", 1, 0), Obs("adder", 1, 0), Obs("watcher", 1, 0)>>
    /\ atoms[1].observers["a"] = <<Obs("adder", 1, 0), Obs("watcher", 1, 0)>>

----------------------------------------------------------------------------
(* Methods of the containers and of a record called through wrappers *)

\* s = atom(new Set()), m = atom(new Map()), ws = atom(new WeakSet()),
\* wm = atom(new WeakMap()), b = atom({ a: 0, add(x) { return this } });
\* o = { a: 0 } is an object the program passes as an argument.
HeapMethod ==
    <<NewContainer("Set"), NewContainer("Map"), NewContainer("WeakSet"),
      NewContainer("WeakMap"),
      NewObject([NoFields EXCEPT !["a"] = Prim(0), !["add"] = Fn]),
      NewObject([NoFields EXCEPT !["a"] = Prim(0)])>>

RECURSIVE atomEach(_, _)
atomEach(st, n) ==
    IF n = 0 THEN st ELSE atom(atomEach(st, n - 1), Raw(n), MaxDepth).st

ConstructedMethod == atomEach(Empty(HeapMethod, 0), 5)

\* The argument lists of the calls the program makes: the object o as
\* the member or the key, 1 as the value.
ArgLists(key) ==
    CASE key = "clear" -> {<<>>}
      [] key = "set" -> {<<Raw(6), Prim(1)>>}
      [] OTHER -> {<<Raw(6)>>}

\* The state and the record of the operation after the call ended as r.
Called(r, a, key) ==
    /\ Install(r.st)
    /\ last' = [NoOp EXCEPT !.op = "call", !.a = a, !.key = key, !.ret = r.ret,
                            !.self = r.self, !.out = r.params]
    /\ UNCHANGED issued

\* wrapper[key](...args), from outside any observer
Call(a, key, args) ==
    /\ isMethod(Cur, TargetOf(Cur, a), key)
    /\ Called(methodCall(Cur, a, key, args, MaxDepth), a, key)

InitMethod == Starts(ConstructedMethod)

NextMethod ==
    \/ \E cb \in MethodBodies : Observe(cb)
    \/ \E a \in 1..5, key \in Keys : \E args \in ArgLists(key) : Call(a, key, args)

SpecMethod == InitMethod /\ [][NextMethod]_vars

\* The kind of the object the last call was made on.
KindOf(a) == objs[atoms[a].target].kind

\* The methods that change a container, and the keys that read it.
Mutators(kind) == methods(kind) \ {"has", "get"}
ReadKeys(kind) ==
    CASE kind \in {"Set"} -> {"size", "has"}
      [] kind \in {"Map"} -> {"size", "has", "get"}
      [] kind \in {"WeakSet"} -> {"has"}
      [] kind \in {"WeakMap"} -> {"has", "get"}
      [] OTHER -> {}

\* C28: after a call of a mutating method of a Set, Map, WeakSet or
\* WeakMap through its wrapper, every observer registered on a key that
\* reads the container (size, has, get) has been notified for that key.
C28_MutatorsNotify ==
    (last.op = "call" /\ last.key \in Mutators(KindOf(last.a))) =>
        \A k \in ReadKeys(KindOf(last.a)) :
            \A i \in 1..Len(atoms[last.a].observers[k]) :
                Fired(atoms[last.a].observers[k][i], last.a, k) = 1

\* C29: a method called through a wrapper does not return the object the
\* wrapper was made for.
C29_NoRawReturn ==
    last.op = "call" => last.ret # Raw(atoms[last.a].target)

\* C30: a method called through a wrapper runs with the target of the
\* atom as its receiver, and no argument it is passed is an object that
\* has not been atomized.
C30_RawReceiverAtomizedArgs ==
    last.op = "call" =>
        /\ last.self = Raw(atoms[last.a].target)
        /\ \A i \in 1..Len(last.out) : ~isArticle(last.out[i])

----------------------------------------------------------------------------
(* Repeated focus of one field *)

\* C31: the reference memoized for a field never changes; a focusAtom
\* call that resolves to a field returns the reference memoized for it,
\* and when the field had a reference before the call, the call makes no
\* atom and no link and leaves every observer set as it was.
C31_FocusIdempotent ==
    [][ /\ \A a \in 1..Len(atoms), k \in Keys :
              atoms[a].references[k] # 0 =>
                  atoms'[a].references[k] = atoms[a].references[k]
        /\ (last'.op = "focus" /\ ~last'.err) =>
              /\ last'.ret = Wrap(atoms'[last'.a].references[last'.key])
              /\ atoms[last'.a].references[last'.key] # 0 =>
                    /\ last'.made = 0
                    /\ atoms' = atoms
                    /\ links' = links
                    /\ objs' = objs
      ]_vars

\* focusAtom(() => state.a) was called a second time, after a write to the
\* field, and returned the reference of the first call without a new link.
C31_Witness ==
    /\ last.op = "focus"
    /\ last.a = 1
    /\ last.key = "a"
    /\ last.made = 0
    /\ last.ret = Wrap(3)
    /\ Len(links) = 1
    /\ get(Cur, 1, "a") = Prim(1)
    /\ atoms[1].observers["a"] = <<Obs("secondary", 1, 0)>>

----------------------------------------------------------------------------
(* atom called on a cyclic source graph *)

\* x = { a: x, c: y }, y = { c: z }, z = { a: x, c: y }: x refers to
\* itself, z refers back to its ancestors x and y.
HeapCycle ==
    <<NewObject([NoFields EXCEPT !["a"] = Raw(1), !["c"] = Raw(2)]),
      NewObject([NoFields EXCEPT !["c"] = Raw(3)]),
      NewObject([NoFields EXCEPT !["a"] = Raw(1), !["c"] = Raw(2)])>>

InitCycle == Starts(Empty(HeapCycle, 0))

\* atom(v) and w.c = v for the objects v of the graph.
NextCycle ==
    \/ \E v \in Raws(Cur) : AtomCall(v)
    \/ \E a \in 1..Len(atoms), v \in Raws(Cur) : WriteAny(a, v)

SpecCycle == InitCycle /\ [][NextCycle]_vars

\* C32: atom ends on the cyclic graph; no field of an atomized object
\* holds an object that was left unatomized, every wrapper stored in a
\* field or returned by atom(source) is the one memoized for its source,
\* and after the call that atomized the graph the fields that point back
\* to x and y hold the wrappers memoized for x and y.
C32_CyclicAtomization ==
    /\ ~overflow
    /\ \A i \in 1..Len(atoms), k \in Keys :
          LET v == objs[atoms[i].target].fields[k]
          IN  /\ isArticle(v) => objs[v.v].unatom
              /\ isAtom(v) => v.v \in 1..Len(atoms) /\ memoized[atoms[v.v].target] = v.v
    /\ \A p \in issued : p[2] = Wrap(memoized[p[1].v])
    /\ (last.op = "atom" /\ last.made = Len(HeapCycle)) =>
          /\ objs[1].fields["a"] = Wrap(memoized[1])
          /\ objs[1].fields["c"] = Wrap(memoized[2])
          /\ objs[2].fields["c"] = Wrap(memoized[3])
          /\ objs[3].fields["a"] = Wrap(memoized[1])
          /\ objs[3].fields["c"] = Wrap(memoized[2])

\* atom(y) atomized the three objects: x, reached through z, holds its own
\* wrapper in its field a, and the call returned the wrapper of y.
C32_Witness ==
    /\ last.op = "atom"
    /\ last.arg = Raw(2)
    /\ last.made = 3
    /\ last.ret = Wrap(1)
    /\ memoized = <<3, 1, 2>>
    /\ objs[1].fields["a"] = Wrap(3)
    /\ objs[3].fields["c"] = Wrap(1)

----------------------------------------------------------------------------
(* The IAtom version of the library: $watch, $notify, $set and $merge *)

\* The keys of the objects the program passes to $set and $merge.
ValueKeys == {"0", "a"}

\* The objects over these keys: Undef stands for a key the object has not.
Values == [ValueKeys -> Prims \cup {Undef}]

\* Object.keys(value), as a set.
OwnKeys(value) == {k \in ValueKeys : value[k] # Undef}

\* new IAtom($source, $primitive): no observers.
NewIAtom(source, primitive) ==
    [target |-> source, observers |-> NoObservers, references |-> NoReferences,
     primitive |-> primitive]

\* IAtom.$watch(props, observer): add the observer to the Set of each prop.
IAtom_watch(st, a, props, observer) == watch(st, a, props, observer)

\* IAtom.$notify(prop, ...exceptions): call each observer in the Set of
\* the prop, the exceptions left out; a prop without a Set has none.
IAtom_notify(st, a, prop, exceptions, fuel) ==
    notifyKey(st, a, prop, exceptions, 1, fuel)

\* Object.assign(this.$source, value): every own key of value is stored.
assign(st, src, value) ==
    [st EXCEPT !.objs[src].fields =
         [k \in Keys |-> IF k \in OwnKeys(value) THEN value[k] ELSE @[k]]]

\* The props that "for (const prop in Object.keys(value))" steps through:
\* for-in enumerates the keys of the array Object.keys returned, which
\* are its indices "0", "1", ... and not its elements.
forInKeys(value) == SubSeq(IndexKeys, 1, Cardinality(OwnKeys(value)))

RECURSIVE notifyEach(_, _, _, _)
\* for (const prop in ...) { this.$notify(prop); }
notifyEach(st, a, props, fuel) ==
    IF props = <<>> THEN st
    ELSE notifyEach(IAtom_notify(st, a, Head(props), {}, fuel), a, Tail(props), fuel)

\* IAtom.$merge(value)
IAtom_merge(st, a, value, fuel) ==
    notifyEach(assign(st, TargetOf(st, a), value), a, forInKeys(value), fuel)

\* IAtom.$set(value): a primitive atom stores the value in its box and
\* notifies "value"; an object atom does what $merge does.
IAtom_set(st, a, value, fuel) ==
    IF st.atoms[a].primitive
    THEN IAtom_notify([st EXCEPT !.objs[TargetOf(st, a)].fields["value"] = value],
                      a, "value", {}, fuel)
    ELSE notifyEach(assign(st, TargetOf(st, a), value), a, forInKeys(value), fuel)

\* The set trap of the proxy: target[prop] = incoming; this.$notify(prop).
IAtom_setTrap(st, a, prop, incoming, fuel) ==
    IAtom_notify([st EXCEPT !.objs[TargetOf(st, a)].fields[prop] = incoming],
                 a, prop, {}, fuel)

\* const state = atom({ 0: 0, a: 0 }), count = atom(0): atom 1 is an
\* object atom, atom 2 a primitive atom over the box { value: 0 }.
HeapIAtom ==
    <<NewObject([NoFields EXCEPT !["0"] = Prim(0), !["a"] = Prim(0)]),
      NewObject([NoFields EXCEPT !["value"] = Prim(0)])>>

InitIAtom ==
    Starts([Empty(HeapIAtom, 0) EXCEPT
                !.atoms = <<NewIAtom(1, FALSE), NewIAtom(2, TRUE)>>])

\* The Sets of props the program passes to $watch on an atom.
PropSets(a) ==
    IF atoms[a].primitive THEN {<<"value">>}
    ELSE {<<"0">>, <<"1">>, <<"a">>, <<"0", "a">>}

\* The values the program passes to $set on an atom.
SetValues(a) == IF atoms[a].primitive THEN Prims ELSE Values

\* h = x.$watch(props, w): the returned closure is kept.
IWatch(a, props, w) ==
    /\ Len(handles) < MaxWatches
    /\ Install([IAtom_watch(Cur, a, props, WatcherOf(w)) EXCEPT
                    !.handles = Append(@, [a |-> a, keys |-> props,
                                           observer |-> WatcherOf(w), called |-> FALSE])])
    /\ last' = [NoOp EXCEPT !.op = "$watch", !.a = a, !.id = w]
    /\ UNCHANGED issued

\* x.$set(value)
ISet(a, value) ==
    /\ Install(IAtom_set(Cur, a, value, MaxDepth))
    /\ last' = [NoOp EXCEPT !.op = "$set", !.a = a, !.arg = value]
    /\ UNCHANGED issued

\* x.$merge(value)
IMerge(a, value) ==
    /\ ~atoms[a].primitive
    /\ Install(IAtom_merge(Cur, a, value, MaxDepth))
    /\ last' = [NoOp EXCEPT !.op = "$merge", !.a = a, !.arg = value]
    /\ UNCHANGED issued

\* x[prop] = v
IAssign(a, prop, v) ==
    /\ objs[atoms[a].target].fields[prop] # Undef
    /\ Install(IAtom_setTrap(Cur, a, prop, v, MaxDepth))
    /\ last' = [NoOp EXCEPT !.op = "assign", !.a = a, !.key = prop, !.arg = v]
    /\ UNCHANGED issued

NextIAtom ==
    \/ \E a \in 1..Len(atoms), w \in 1..MaxWatches :
           \E props \in PropSets(a) : IWatch(a, props, w)
    \/ \E a \in 1..Len(atoms) : \E value \in SetValues(a) : ISet(a, value)
    \/ \E a \in 1..Len(atoms), value \in Values : IMerge(a, value)
    \/ \E a \in 1..Len(atoms), prop \in Keys, v \in Prims : IAssign(a, prop, v)

SpecIAtom == InitIAtom /\ [][NextIAtom]_vars

\* The observers invoked by the last operation.
Invoked == {fanout[i].obs : i \in 1..Len(fanout)}

\* The observers of an atom that watch one of the given keys.
WatchingAny(a, ks) ==
    UNION {Range(atoms[a].observers[k]) : k \in ks}

\* C33: $merge(value) and $set(value) on an object atom store every key of
\* value in the source, invoke every observer that watches a key present
\* in value, and invoke no observer that watches only keys absent from
\* value.
C33_SetMergeNotifiesKeysOfValue ==
    (last.op \in {"$set", "$merge"} /\ ~atoms[last.a].primitive) =>
        /\ \A k \in OwnKeys(last.arg) :
               objs[atoms[last.a].target].fields[k] = last.arg[k]
        /\ Invoked = WatchingAny(last.a, OwnKeys(last.arg))

============================================================================
